---------------------------- MODULE Spec2Model ----------------------------
(***************************************************************************)
(* Chart of accounts of addons/account/models/account_account.py:          *)
(*   - AccountAccount._search_new_account_code (code allocation),          *)
(*   - AccountAccount.create / write / _ensure_code_is_unique,             *)
(*   - AccountAccount.action_merge and its three steps,                    *)
(*   - AccountGroup create / write / unlink / _adapt_parent_account_group. *)
(*                                                                         *)
(* A string is a sequence of one-character strings: "1021A" is             *)
(* <<"1","0","2","1","A">>.  A falsy Char value (False, '', SQL NULL) is   *)
(* the empty sequence.  Companies are root companies (company.root_id is   *)
(* the company itself).                                                    *)
(***************************************************************************)
EXTENDS Integers, Sequences, FiniteSets, TLC

VARIABLES
    accounts,       \* account.account rows: id -> fields (code is company -> string)
    nextAccountId,  \* the id the next created account gets
    lines,          \* account.move.line rows, each with its account_id: id -> fields
    references,     \* records holding a reference ('account.account', id): id -> account id
    lockDates,      \* res.company: company -> [fiscalyear, hard] user lock dates
    groups,         \* account.group rows: id -> fields
    nextGroupId,    \* the id the next created group gets
    alloc,          \* the inputs and the result of one _search_new_account_code call
    last            \* what the last operation was given and how it ended

vars == <<accounts, nextAccountId, lines, references, lockDates, groups, nextGroupId, alloc, last>>

-----------------------------------------------------------------------------
(* Strings *)

Digits == {"0", "1", "2", "3", "4", "5", "6", "7", "8", "9"}

DigitVal(c) ==
    CASE c = "0" -> 0 [] c = "1" -> 1 [] c = "2" -> 2 [] c = "3" -> 3 [] c = "4" -> 4
      [] c = "5" -> 5 [] c = "6" -> 6 [] c = "7" -> 7 [] c = "8" -> 8 [] c = "9" -> 9

DigitChar(n) ==
    CASE n = 0 -> "0" [] n = 1 -> "1" [] n = 2 -> "2" [] n = 3 -> "3" [] n = 4 -> "4"
      [] n = 5 -> "5" [] n = 6 -> "6" [] n = 7 -> "7" [] n = 8 -> "8" [] n = 9 -> "9"

\* Code point order of the characters an account code may hold ([A-Za-z0-9.]).
Ord(c) ==
    CASE c = "." -> 46
      [] c \in Digits -> 48 + DigitVal(c)
      [] c = "A" -> 65 [] c = "B" -> 66
      [] c = "c" -> 99 [] c = "o" -> 111 [] c = "p" -> 112 [] c = "y" -> 121

Min(a, b) == IF a <= b THEN a ELSE b

\* 10**d
RECURSIVE Pow10(_)
Pow10(d) == IF d = 0 THEN 1 ELSE 10 * Pow10(d - 1)

\* s < t for strings, character by character, a proper prefix being smaller.
StrLT(s, t) ==
    \E i \in 1..(Len(t)) :
        /\ \A j \in 1..(i - 1) : j <= Len(s) /\ s[j] = t[j]
        /\ \/ i = Len(s) + 1
           \/ i <= Len(s) /\ Ord(s[i]) < Ord(t[i])

StrLE(s, t) == s = t \/ StrLT(s, t)

\* LEFT(s, n) of SQL, s[:n] of Python.
Left(s, n) == SubSeq(s, 1, Min(n, Len(s)))

\* int(digits_str)
RECURSIVE StrToInt(_)
StrToInt(s) ==
    IF s = <<>> THEN 0
    ELSE 10 * StrToInt(SubSeq(s, 1, Len(s) - 1)) + DigitVal(s[Len(s)])

\* str(num) for num >= 0
RECURSIVE IntToStr(_)
IntToStr(n) ==
    IF n < 10 THEN <<DigitChar(n)>>
    ELSE Append(IntToStr(n \div 10), DigitChar(n % 10))

\* f'{num:0{d}}': str(num), zero-padded on the left to at least d characters.
RECURSIVE ZeroPad(_, _)
ZeroPad(s, d) == IF Len(s) >= d THEN s ELSE ZeroPad(<<"0">> \o s, d)

FormatNum(num, d) == ZeroPad(IntToStr(num), d)

-----------------------------------------------------------------------------
(* _search_new_account_code *)

\* Whether all of t matches \d*\D* : digits, then characters that are no digits.
DigitsThenNonDigits(t) ==
    \E k \in 0..Len(t) :
        /\ \A j \in 1..k : t[j] \in Digits
        /\ \A j \in (k + 1)..Len(t) : t[j] \notin Digits

\* ACCOUNT_CODE_NUMBER_REGEX = (.*?)(\d*)(\D*?)$ matched from the start of the
\* code: the lazy first group is the shortest prefix after which the rest is a
\* run of digits followed by non-digits; the greedy second group takes every
\* leading digit of that rest.
RegexGroups(code) ==
    LET n == Len(code)
        Rest(i) == SubSeq(code, i + 1, n)
        i == CHOOSE x \in 0..n :
                 /\ DigitsThenNonDigits(Rest(x))
                 /\ \A y \in 0..(x - 1) : ~DigitsThenNonDigits(Rest(y))
        rest == Rest(i)
        k == CHOOSE x \in 0..Len(rest) :
                 /\ \A j \in 1..x : rest[j] \in Digits
                 /\ x < Len(rest) => rest[x + 1] \notin Digits
    IN  [start_str |-> SubSeq(code, 1, i),
         digits_str |-> SubSeq(rest, 1, k),
         end_str |-> SubSeq(rest, k + 1, Len(rest))]

\* The value of cache when the caller passes none (no set of codes).
NoCache == {<<"None">>}

\* A default that is the empty cache.
DefaultCacheEmpty(start_code, cache) == IF cache = NoCache THEN {} ELSE cache

\* if cache is None: cache = {start_code}
DefaultCache(start_code, cache) == IF cache = NoCache THEN {start_code} ELSE cache

\* A code_is_available that leaves out the cache.
CodeIsAvailableNoCache(new_code, cache, used) == new_code \notin used

\* code_is_available: not in the cache and no account of the current company
\* has the code (used is the set of codes search_count finds).
CodeIsAvailable(new_code, cache, used) == new_code \notin cache /\ new_code \notin used

\* A copy code that always has its number.
CopyCodeNumbered(start_code, num) ==
    start_code \o <<".", "c", "o", "p", "y">> \o IntToStr(num + 1)

\* f'{start_code}.copy{num and num + 1 or ""}'
CopyCode(start_code, num) ==
    start_code \o <<".", "c", "o", "p", "y">> \o (IF num = 0 THEN <<>> ELSE IntToStr(num + 1))

\* range(99) of the fallback loop
CopyRange == 99

\* What stands for the UserError 'Cannot generate an unused account code.'
NoCodeFound == <<"UserError">>

\* A numbered code whose number is not padded.
NumCodeUnpadded(start_code, num) ==
    LET g == RegexGroups(start_code)
    IN  g.start_str \o IntToStr(num) \o g.end_str

\* f'{start_str}{num:0{d}}{end_str}' for the groups of start_code
NumCode(start_code, num) ==
    LET g == RegexGroups(start_code)
    IN  g.start_str \o FormatNum(num, Len(g.digits_str)) \o g.end_str

\* for num in range(num, stop): the first available numbered code, or
\* NoCodeFound when the loop ends without returning.
RECURSIVE NumLoop(_, _, _, _, _)
NumLoop(start_code, num, stop, cache, used) ==
    IF num >= stop THEN NoCodeFound
    ELSE IF CodeIsAvailable(NumCode(start_code, num), cache, used)
         THEN NumCode(start_code, num)
         ELSE NumLoop(start_code, num + 1, stop, cache, used)

\* for num in range(num, 99): the first available copy code, or NoCodeFound.
RECURSIVE CopyLoop(_, _, _, _)
CopyLoop(start_code, num, cache, used) ==
    IF num >= CopyRange THEN NoCodeFound
    ELSE IF CodeIsAvailable(CopyCode(start_code, num), cache, used)
         THEN CopyCode(start_code, num)
         ELSE CopyLoop(start_code, num + 1, cache, used)

\* The result of _search_new_account_code(start_code, cache) when the accounts
\* of the current company hold the codes of used: the code returned, or
\* NoCodeFound when the method raises.
SearchNewAccountCode(start_code, cacheArg, used) ==
    LET cache == DefaultCache(start_code, cacheArg)
        g == RegexGroups(start_code)
        d == Len(g.digits_str)
        n == StrToInt(g.digits_str)
        numbered == IF g.digits_str # <<>>
                    THEN NumLoop(start_code, n + 1, Pow10(d), cache, used)
                    ELSE NoCodeFound
    IN  IF CodeIsAvailable(start_code, cache, used) THEN start_code
        ELSE IF numbered # NoCodeFound THEN numbered
        ELSE CopyLoop(start_code, 0, cache, used)

-----------------------------------------------------------------------------
(* The values of the variables a specification does not use *)

NoAlloc == [pc |-> "none"]
NoLast == [op |-> "none"]

-----------------------------------------------------------------------------
(* The code allocator on its own: one call with inputs from bounded sets *)

\* How many numbered codes and how many copy codes after the start code the
\* used-set and the cache are drawn from.
NearCodes == 2

StartCodes ==
    { <<"1", "0", "2", "1", "A">>,
      <<"9", "9", "9", "8">>,
      <<"1", "0", ".", "0", "1", ".", "9", "7">>,
      <<"A", "B">>,
      <<"0", "8">>,
      <<"9">> }

\* The start code and the first codes the allocator would try after it.
Near(start_code) ==
    LET g == RegexGroups(start_code)
        n == StrToInt(g.digits_str)
        top == Pow10(Len(g.digits_str)) - 1
    IN  {start_code}
        \cup (IF g.digits_str = <<>> THEN {}
              ELSE {NumCode(start_code, num) : num \in (n + 1)..Min(n + NearCodes, top)})
        \cup {CopyCode(start_code, num) : num \in 0..(NearCodes - 1)}

InitAlloc ==
    /\ accounts = <<>>
    /\ nextAccountId = 1
    /\ lines = <<>>
    /\ references = <<>>
    /\ lockDates = <<>>
    /\ groups = <<>>
    /\ nextGroupId = 1
    /\ last = NoLast
    /\ \E start_code \in StartCodes :
       \E used \in SUBSET Near(start_code) :
       \E cache \in {NoCache} \cup SUBSET Near(start_code) :
           alloc = [pc |-> "call", start_code |-> start_code, cache |-> cache,
                    used |-> used, new_code |-> <<>>]

\* One call of _search_new_account_code.
SearchNewCode ==
    /\ alloc.pc = "call"
    /\ alloc' = [alloc EXCEPT
                   !.pc = "done",
                   !.new_code = SearchNewAccountCode(alloc.start_code, alloc.cache, alloc.used)]
    /\ UNCHANGED <<accounts, nextAccountId, lines, references, lockDates, groups, nextGroupId, last>>

NextAlloc == SearchNewCode

SpecAlloc == InitAlloc /\ [][NextAlloc]_vars

\* C2: whenever the allocator returns a code, the code is neither in the
\* used-set nor in alreadyTried (the cache, {start_code} when none is given).
C2_ResultIsFree ==
    (alloc.pc = "done" /\ alloc.new_code # NoCodeFound)
        => /\ alloc.new_code \notin alloc.used
           /\ alloc.new_code \notin DefaultCache(alloc.start_code, alloc.cache)

\* A call that had to go past used and cached codes before it returned one.
C2_Witness ==
    /\ alloc.pc = "done"
    /\ alloc.new_code # NoCodeFound
    /\ alloc.new_code # alloc.start_code
    /\ alloc.used # {}
    /\ alloc.cache # NoCache
    /\ \E code \in alloc.cache : code \notin alloc.used /\ code # alloc.start_code

-----------------------------------------------------------------------------
(* account.group *)

Companies == {1, 2}

\* parent_id IS NULL
NoGroup == 0

\* How many groups are ever created.
MaxGroups == 3

\* How many groups one write is called on.
MaxWritten == 1

\* The prefixes group creates and writes are given; <<>> is a falsy value.
PrefixValues == { <<"1">>, <<"2">>, <<"1", "1">>, <<"1", "1", "1">> }

\* One or both of them are the keys of the vals of a create or a write.
PrefixFields == {"code_prefix_start", "code_prefix_end"}

\* The vals of a create or a write that names at least one prefix field: one
\* field with any value, or both fields with "1" and "2" in either order, with
\* "1" and "11" (two lengths), or with one of them falsy.  (A group without
\* prefixes has no range and takes no part in the hierarchy: none is created.)
PrefixVals ==
    UNION { [{field} -> PrefixValues \cup {<<>>}] : field \in PrefixFields }
    \cup { [code_prefix_start |-> <<"1">>, code_prefix_end |-> <<"2">>],
           [code_prefix_start |-> <<"2">>, code_prefix_end |-> <<"1">>],
           [code_prefix_start |-> <<"1">>, code_prefix_end |-> <<"1", "1">>],
           [code_prefix_start |-> <<"1", "1">>, code_prefix_end |-> <<>>],
           [code_prefix_start |-> <<>>, code_prefix_end |-> <<"1", "1">>] }

\* vals.get(key): the value, falsy when the key is absent
Get(vals, key) == IF key \in DOMAIN vals THEN vals[key] ELSE <<>>

\* del vals[key]
Del(vals, key) == [k \in (DOMAIN vals) \ {key} |-> vals[k]]

\* _sanitize_vals: a falsy prefix given beside a truthy one is dropped, so that
\* it is computed from the other one.
SanitizeVals(vals) ==
    LET v1 == IF /\ Get(vals, "code_prefix_start") # <<>>
                 /\ "code_prefix_end" \in DOMAIN vals
                 /\ vals["code_prefix_end"] = <<>>
              THEN Del(vals, "code_prefix_end") ELSE vals
    IN  IF /\ Get(v1, "code_prefix_end") # <<>>
           /\ "code_prefix_start" \in DOMAIN v1
           /\ v1["code_prefix_start"] = <<>>
        THEN Del(v1, "code_prefix_start") ELSE v1

\* _compute_code_prefix_end of one group
ComputeCodePrefixEnd(g) ==
    IF \/ g.code_prefix_end = <<>>
       \/ g.code_prefix_start # <<>> /\ StrLT(g.code_prefix_end, g.code_prefix_start)
    THEN [g EXCEPT !.code_prefix_end = g.code_prefix_start]
    ELSE g

\* _compute_code_prefix_start of one group
ComputeCodePrefixStart(g) ==
    IF \/ g.code_prefix_start = <<>>
       \/ g.code_prefix_end # <<>> /\ StrLT(g.code_prefix_end, g.code_prefix_start)
    THEN [g EXCEPT !.code_prefix_start = g.code_prefix_end]
    ELSE g

\* The prefix fields of group g after the sanitized vals are written on it: a
\* field of vals takes the value given, and a field that vals does not name is
\* recomputed from the one it depends on.
WritePrefixes(g, vals) ==
    LET given == [g EXCEPT
                    !.code_prefix_start =
                        IF "code_prefix_start" \in DOMAIN vals
                        THEN vals["code_prefix_start"] ELSE @,
                    !.code_prefix_end =
                        IF "code_prefix_end" \in DOMAIN vals
                        THEN vals["code_prefix_end"] ELSE @]
    IN  IF "code_prefix_start" \in DOMAIN vals /\ "code_prefix_end" \notin DOMAIN vals
        THEN ComputeCodePrefixEnd(given)
        ELSE IF "code_prefix_end" \in DOMAIN vals /\ "code_prefix_start" \notin DOMAIN vals
        THEN ComputeCodePrefixStart(given)
        ELSE given

\* The SQL constraint check_length_prefix (COALESCE makes NULL the empty string).
CheckLengthPrefix(g) == Len(g.code_prefix_start) = Len(g.code_prefix_end)

\* A join condition that leaves out the second disjunct of the range test.
PrefixOverlapFirstOnly(gs, this, other) ==
    LET t == gs[this]
        o == gs[other]
    IN  /\ Len(o.code_prefix_start) = Len(t.code_prefix_start)
        /\ other # this
        /\ o.company_id = t.company_id
        /\ StrLE(o.code_prefix_start, t.code_prefix_start)
        /\ StrLE(t.code_prefix_start, o.code_prefix_end)

\* The join condition of _constraint_prefix_overlap between the rows this and
\* other of table gs; a comparison with NULL is not true.
PrefixOverlap(gs, this, other) ==
    LET t == gs[this]
        o == gs[other]
    IN  /\ t.code_prefix_start # <<>> /\ t.code_prefix_end # <<>>
        /\ o.code_prefix_start # <<>> /\ o.code_prefix_end # <<>>
        /\ Len(o.code_prefix_start) = Len(t.code_prefix_start)
        /\ other # this
        /\ o.company_id = t.company_id
        /\ \/ /\ StrLE(o.code_prefix_start, t.code_prefix_start)
              /\ StrLE(t.code_prefix_start, o.code_prefix_end)
           \/ /\ StrLE(t.code_prefix_start, o.code_prefix_start)
              /\ StrLE(o.code_prefix_start, t.code_prefix_end)

\* _constraint_prefix_overlap on the records ids: TRUE when it raises.
ConstraintPrefixOverlap(gs, ids) ==
    \E this \in ids : \E other \in DOMAIN gs : PrefixOverlap(gs, this, other)

\* A join condition without the test of the start of the range.
EligibleParentEndOnly(gs, parent, child) ==
    LET p == gs[parent]
        c == gs[child]
    IN  /\ p.code_prefix_start # <<>> /\ p.code_prefix_end # <<>>
        /\ c.code_prefix_start # <<>> /\ c.code_prefix_end # <<>>
        /\ Len(p.code_prefix_start) < Len(c.code_prefix_start)
        /\ StrLE(Left(c.code_prefix_end, Len(p.code_prefix_end)), p.code_prefix_end)
        /\ parent # child
        /\ p.company_id = c.company_id

\* The join condition of the query of _adapt_parent_account_group.
EligibleParent(gs, parent, child) ==
    LET p == gs[parent]
        c == gs[child]
    IN  /\ p.code_prefix_start # <<>> /\ p.code_prefix_end # <<>>
        /\ c.code_prefix_start # <<>> /\ c.code_prefix_end # <<>>
        /\ Len(p.code_prefix_start) < Len(c.code_prefix_start)
        /\ StrLE(p.code_prefix_start, Left(c.code_prefix_start, Len(p.code_prefix_start)))
        /\ StrLE(Left(c.code_prefix_end, Len(p.code_prefix_end)), p.code_prefix_end)
        /\ parent # child
        /\ p.company_id = c.company_id

\* The rows of the join for one child that pass the WHERE clause: the child is
\* of one of the companies, and the parent is not the one it has already.
JoinedParents(gs, company_ids, child) ==
    {parent \in DOMAIN gs :
        /\ EligibleParent(gs, parent, child)
        /\ gs[child].company_id \in company_ids
        /\ gs[child].parent_id # parent}

\* DISTINCT ON (child.id) ... ORDER BY child.id, char_length(parent.code_prefix_start) DESC:
\* the rows of a child that the query may keep (one of them, whichever comes
\* first among those of the greatest length).
RelationParents(gs, company_ids, child) ==
    LET joined == JoinedParents(gs, company_ids, child)
    IN  {parent \in joined :
            \A o \in joined :
                Len(gs[o].code_prefix_start) <= Len(gs[parent].code_prefix_start)}

\* The children the relation has a row for, which are the rows UPDATE returns.
RelationChildren(gs, company_ids) ==
    {child \in DOMAIN gs : JoinedParents(gs, company_ids, child) # {}}

\* A resolver that does not read delay_account_group_sync.
AdaptParentIgnoringDelay(gs, company_ids, delay) ==
    IF company_ids = {}
    THEN {gs}
    ELSE LET kept == [child \in DOMAIN gs |-> RelationParents(gs, company_ids, child)]
             children == {child \in DOMAIN gs : kept[child] # {}}
         IN  { [id \in DOMAIN gs |->
                   IF id \in children THEN [gs[id] EXCEPT !.parent_id = relation[id]] ELSE gs[id]] :
               relation \in {r \in [children -> DOMAIN gs] :
                                \A child \in children : r[child] \in kept[child]} }

\* The tables that the UPDATE of _adapt_parent_account_group can leave; the
\* method returns at once under delay_account_group_sync or without company.
AdaptParentAccountGroup(gs, company_ids, delay) ==
    IF delay \/ company_ids = {}
    THEN {gs}
    ELSE LET kept == [child \in DOMAIN gs |-> RelationParents(gs, company_ids, child)]
             children == {child \in DOMAIN gs : kept[child] # {}}
         IN  { [id \in DOMAIN gs |->
                   IF id \in children THEN [gs[id] EXCEPT !.parent_id = relation[id]] ELSE gs[id]] :
               relation \in {r \in [children -> DOMAIN gs] :
                                \A child \in children : r[child] \in kept[child]} }

\* self.company_id.ids
CompanyIdsOf(gs, ids) == {gs[id].company_id : id \in ids}

\* The groups reached from group id by following parent_id, at most steps times.
RECURSIVE Ancestors(_, _, _)
Ancestors(gs, id, steps) ==
    IF steps = 0 \/ id \notin DOMAIN gs \/ gs[id].parent_id \notin DOMAIN gs
    THEN {}
    ELSE {gs[id].parent_id} \cup Ancestors(gs, gs[id].parent_id, steps - 1)

\* _has_cycle on the records ids: one of them is its own ancestor.
HasCycle(gs, ids) == \E id \in ids : id \in Ancestors(gs, id, Cardinality(DOMAIN gs))

\* A loop of unlink that writes on no child.
UnlinkNoReparent(gs, order, i) == [ok |-> TRUE, groups |-> gs]

\* The loop of unlink over the records of order, from its index i on:
\* the children of each record get the parent of the record, and the constraint
\* on parent_id checks them.  The result is the table, with ok FALSE when
\* _check_parent_not_circular raised.
RECURSIVE UnlinkReparent(_, _, _)
UnlinkReparent(gs, order, i) ==
    IF i > Len(order) THEN [ok |-> TRUE, groups |-> gs]
    ELSE LET record == order[i]
             children_ids == {c \in DOMAIN gs : gs[c].parent_id = record}
             written == [id \in DOMAIN gs |->
                            IF id \in children_ids
                            THEN [gs[id] EXCEPT !.parent_id = gs[record].parent_id]
                            ELSE gs[id]]
         IN  IF children_ids # {} /\ HasCycle(written, children_ids)
             THEN [ok |-> FALSE, groups |-> gs]
             ELSE UnlinkReparent(written, order, i + 1)

\* ondelete='cascade' of parent_id: the rows deleted with the rows of ids.
RECURSIVE CascadeDeleted(_, _)
CascadeDeleted(gs, ids) ==
    LET more == {c \in DOMAIN gs : gs[c].parent_id \in ids} \ ids
    IN  IF more = {} THEN ids ELSE CascadeDeleted(gs, ids \cup more)

\* The sequences of 1 or 2 distinct groups a call of unlink is made on.
UnlinkOrders ==
    {<<a>> : a \in DOMAIN groups}
    \cup {<<p[1], p[2]>> : p \in {q \in (DOMAIN groups) \X (DOMAIN groups) : q[1] # q[2]}}

\* What is kept of a group operation: how it ended, the companies the resolver
\* ran on, and the table as it was before an operation that raised.
GroupLast(op, outcome, resolved, delay, pre) ==
    [outcome |-> outcome, resolved |-> resolved, pre |-> pre]

\* AccountGroup.create of one group of a company; delays holds the values of
\* delay_account_group_sync that the context of the call may have.
GroupCreate(company, vals, delays) ==
    /\ nextGroupId <= MaxGroups
    /\ \E g \in {WritePrefixes([company_id |-> company, code_prefix_start |-> <<>>,
                                 code_prefix_end |-> <<>>, parent_id |-> NoGroup],
                                SanitizeVals(vals))} :
       \E created \in {[i \in (DOMAIN groups) \cup {nextGroupId} |->
                           IF i = nextGroupId THEN g ELSE groups[i]]} :
       LET id == nextGroupId
       IN  IF CheckLengthPrefix(g) /\ ~ConstraintPrefixOverlap(created, {id})
           THEN \E delay \in delays :
                /\ groups' \in AdaptParentAccountGroup(created, {company}, delay)
                /\ nextGroupId' = id + 1
                /\ last' = GroupLast("create", "ok", IF delay THEN {} ELSE {company}, delay, <<>>)
           ELSE /\ UNCHANGED <<groups, nextGroupId>>
                /\ last' = GroupLast("create", "ValidationError", {}, FALSE, groups)
    /\ UNCHANGED <<accounts, nextAccountId, lines, references, lockDates, alloc>>

\* AccountGroup.write of prefix fields on the records ids; delays as above.
GroupWrite(ids, vals, delays) ==
    /\ ids # {} /\ ids \subseteq DOMAIN groups /\ Cardinality(ids) <= MaxWritten
    /\ \E written \in {[id \in DOMAIN groups |->
                           IF id \in ids THEN WritePrefixes(groups[id], SanitizeVals(vals))
                           ELSE groups[id]]} :
       LET company_ids == CompanyIdsOf(groups, ids)
       IN  IF /\ \A id \in ids : CheckLengthPrefix(written[id])
              /\ ~ConstraintPrefixOverlap(written, ids)
           THEN \E delay \in delays :
                /\ groups' \in AdaptParentAccountGroup(written, company_ids, delay)
                /\ last' = GroupLast("write", "ok", IF delay THEN {} ELSE company_ids, delay, <<>>)
           ELSE /\ UNCHANGED groups
                /\ last' = GroupLast("write", "ValidationError", {}, FALSE, groups)
    /\ UNCHANGED <<accounts, nextAccountId, lines, references, lockDates, nextGroupId, alloc>>

\* AccountGroup.unlink on the records of order.  With history, last keeps the
\* records and the table before the call.
GroupUnlink(order, history) ==
    /\ \E r \in {UnlinkReparent(groups, order, 1)} :
       LET ids == {order[i] : i \in 1..Len(order)}
           deleted == CascadeDeleted(r.groups, ids)
           Kept(l) == IF history THEN [order |-> order, pre |-> groups] @@ l ELSE l
       IN  IF r.ok
           THEN /\ groups' = [id \in (DOMAIN groups) \ deleted |-> r.groups[id]]
                /\ last' = Kept(GroupLast("unlink", "ok", {}, FALSE, <<>>))
           ELSE /\ UNCHANGED groups
                /\ last' = Kept(GroupLast("unlink", "ValidationError", {}, FALSE, groups))
    /\ UNCHANGED <<accounts, nextAccountId, lines, references, lockDates, nextGroupId, alloc>>

\* _adapt_parent_account_group(company) called on its own.
GroupAdapt(company_ids, delay) ==
    /\ groups' \in AdaptParentAccountGroup(groups, company_ids, delay)
    /\ last' = GroupLast("adapt", "ok", IF delay THEN {} ELSE company_ids, delay, <<>>)
    /\ UNCHANGED <<accounts, nextAccountId, lines, references, lockDates, nextGroupId, alloc>>

InitGroup ==
    /\ accounts = <<>>
    /\ nextAccountId = 1
    /\ lines = <<>>
    /\ references = <<>>
    /\ lockDates = <<>>
    /\ groups = <<>>
    /\ nextGroupId = 1
    /\ alloc = NoAlloc
    /\ last = [outcome |-> "ok", resolved |-> {}, pre |-> <<>>]

NextGroup ==
    \/ \E company \in Companies, vals \in PrefixVals : GroupCreate(company, vals, BOOLEAN)
    \/ \E ids \in SUBSET DOMAIN groups, vals \in PrefixVals : GroupWrite(ids, vals, BOOLEAN)
    \/ \E order \in UnlinkOrders : GroupUnlink(order, FALSE)
    \/ \E company_ids \in (SUBSET Companies) \ {{}}, delay \in BOOLEAN :
           GroupAdapt(company_ids, delay)

SpecGroup == InitGroup /\ [][NextGroup]_vars

\* Creates and writes only, all without delay_account_group_sync.
NextGroupSync ==
    \/ \E company \in Companies, vals \in PrefixVals : GroupCreate(company, vals, {FALSE})
    \/ \E ids \in SUBSET DOMAIN groups, vals \in PrefixVals : GroupWrite(ids, vals, {FALSE})

SpecGroupSync == InitGroup /\ [][NextGroupSync]_vars

\* The eligible parents of a group: the join condition alone.
EligibleParents(gs, child) == {parent \in DOMAIN gs : EligibleParent(gs, parent, child)}

\* C7: after creates and writes made without the deferred-sync flag, a group
\* that has eligible parents has as its parent an eligible group of the greatest
\* prefix length.
C7_MostSpecificParent ==
    \A child \in DOMAIN groups :
        EligibleParents(groups, child) # {}
            => /\ groups[child].parent_id \in EligibleParents(groups, child)
               /\ \A o \in EligibleParents(groups, child) :
                      Len(groups[o].code_prefix_start)
                          <= Len(groups[groups[child].parent_id].code_prefix_start)

\* C8: after a resolver pass on some companies, a second pass on the same
\* companies has no row to update: it changes no parent and returns no group.
C8_SecondPassChangesNothing ==
    last.resolved # {} => RelationChildren(groups, last.resolved) = {}

\* C9: no group is its own ancestor.
C9_Acyclic ==
    \A id \in DOMAIN groups : id \notin Ancestors(groups, id, Cardinality(DOMAIN groups))

\* Two ranges of prefixes have a prefix in common.
RangesOverlap(g1, g2) ==
    /\ StrLE(g1.code_prefix_start, g2.code_prefix_end)
    /\ StrLE(g2.code_prefix_start, g1.code_prefix_end)

\* C10: no two groups of one company with prefixes of one length have
\* overlapping ranges, and a create or write that raised left the groups as
\* they were.
C10_NoOverlap ==
    /\ \A a \in DOMAIN groups : \A b \in (DOMAIN groups) \ {a} :
           (/\ groups[a].company_id = groups[b].company_id
            /\ groups[a].code_prefix_start # <<>>
            /\ Len(groups[a].code_prefix_start) = Len(groups[b].code_prefix_start))
               => ~RangesOverlap(groups[a], groups[b])
    /\ last.outcome = "ValidationError" => groups = last.pre

\* Two groups of one company with ranges of one length, after an operation
\* that went through.
C10_Witness ==
    /\ last.outcome = "ok"
    /\ \E a \in DOMAIN groups : \E b \in (DOMAIN groups) \ {a} :
           /\ groups[a].company_id = groups[b].company_id
           /\ Len(groups[a].code_prefix_start) = Len(groups[b].code_prefix_start)
           /\ groups[a].code_prefix_start # groups[a].code_prefix_end

-----------------------------------------------------------------------------
(* account.account: create, write and _ensure_code_is_unique *)

\* How many accounts are ever created.
MaxAccounts == 3

\* How many vals one create is given, and how many accounts one write is
\* called on.
MaxBatch == 2

\* v.get('company_ids') of vals without the key
NoCompany == 0

\* currency_id of an account without currency
NoCurrency == 0

\* The characters of ACCOUNT_CODE_REGEX = ^[A-Za-z0-9.]+$
CodeChars ==
    Digits \cup {"."}
    \cup {"A", "B", "C", "D", "E", "F", "G", "H", "I", "J", "K", "L", "M",
          "N", "O", "P", "Q", "R", "S", "T", "U", "V", "W", "X", "Y", "Z"}
    \cup {"a", "b", "c", "d", "e", "f", "g", "h", "i", "j", "k", "l", "m",
          "n", "o", "p", "q", "r", "s", "t", "u", "v", "w", "x", "y", "z"}

\* _check_account_code of one code: TRUE when it raises.
CheckAccountCode(code) == code # <<>> /\ \E i \in 1..Len(code) : code[i] \notin CodeChars

\* The codes that creates and writes are given.
CodeValues == { <<"4", "0", "1">>, <<"4", "0", "2">> }

\* A code that _check_account_code refuses.
BadCode == <<"4", "-">>

\* An account of one company as create makes it; the fields that the vals here
\* do not name have one value.
NewAccount(company, code) ==
    [company_ids |-> {company},
     code |-> [c \in Companies |-> IF c = company THEN code ELSE <<>>],
     currency_id |-> NoCurrency,
     deprecated |-> FALSE,
     account_type |-> "asset_current",
     reconcile |-> FALSE,
     non_trade |-> FALSE]

\* The codes that search_count finds in a company.
UsedCodes(accs, company) == {accs[a].code[company] : a \in DOMAIN accs} \ {<<>>}

\* A first half that finds every code set.
CodeNotSetNever(accs, ids) == FALSE

\* First half of _ensure_code_is_unique: an account of ids has no code in one
\* of its companies.
CodeNotSet(accs, ids) ==
    \E id \in ids : \E company \in accs[id].company_ids : accs[id].code[company] = <<>>

\* Second half of _ensure_code_is_unique, in the company of the environment:
\* the duplicate codes, among the accounts of ids or else between them and the
\* other accounts.
DuplicateCodes(accs, ids, company) ==
    LET accounts_with_code == {id \in ids : accs[id].code[company] # <<>>}
        accounts_by_code == {accs[id].code[company] : id \in accounts_with_code}
    IN  IF Cardinality(accounts_by_code) < Cardinality(accounts_with_code)
        THEN {code \in accounts_by_code :
                 Cardinality({id \in accounts_with_code : accs[id].code[company] = code}) > 1}
        ELSE {accs[o].code[company] :
                 o \in {d \in (DOMAIN accs) \ ids : accs[d].code[company] \in accounts_by_code}}

\* _ensure_code_is_unique on the records ids with env.company = company: TRUE
\* when it raises ValidationError.
EnsureCodeIsUnique(accs, ids, company) ==
    CodeNotSet(accs, ids) \/ DuplicateCodes(accs, ids, company) # {}

\* _check_company_consistency on the records ids: "ok", or the error raised.
CheckCompanyConsistency(accs, lns, ids) ==
    IF \E id \in ids : accs[id].company_ids = {} THEN "ValidationError"
    ELSE IF \E id \in ids : \E l \in DOMAIN lns :
                lns[l].account_id = id /\ lns[l].company_id \notin accs[id].company_ids
    THEN "UserError"
    ELSE "ok"

\* The vals of a create: a code or none, or a prefix and code_digits, and
\* company_ids (one company) or not.
CreateVals ==
    LET codes == {[code |-> code] : code \in CodeValues}
                 \cup {[prefix |-> <<"4", "0">>, code_digits |-> 3]}
    IN  codes
        \cup {[name |-> "account"]}
        \cup {v @@ [company_ids |-> company] : v \in codes, company \in Companies}

\* The lists of vals of a create.
CreateValsLists == UNION {[1..n -> CreateVals] : n \in 1..MaxBatch}

\* v.get('company_ids'), the key of itertools.groupby
CompanyKey(vals) == IF "company_ids" \in DOMAIN vals THEN vals["company_ids"] ELSE NoCompany

\* The length of the first run of vals_list, i of which are known to be in it.
RECURSIVE RunLength(_, _)
RunLength(vals_list, i) ==
    IF i < Len(vals_list) /\ CompanyKey(vals_list[i + 1]) = CompanyKey(vals_list[1])
    THEN RunLength(vals_list, i + 1)
    ELSE i

\* prefix.ljust(width, '0')
RECURSIVE LJust(_, _)
LJust(prefix, width) == IF Len(prefix) >= width THEN prefix ELSE LJust(Append(prefix, "0"), width)

\* prefix.ljust(digits - 1, '0') + '1' if len(prefix) < digits else prefix
StartCode(prefix, digits) ==
    IF Len(prefix) < digits THEN Append(LJust(prefix, digits - 1), "1") ELSE prefix

\* A loop over the vals of a run that puts no code into the cache.
RECURSIVE FillCodesNoCache(_, _, _, _)
FillCodesNoCache(run, i, cache, used) ==
    IF i > Len(run) THEN <<>>
    ELSE IF "prefix" \in DOMAIN run[i]
    THEN LET vals == run[i]
             code == SearchNewAccountCode(StartCode(vals["prefix"], vals["code_digits"]), cache, used)
             filled == [k \in ((DOMAIN vals) \ {"prefix", "code_digits"}) \cup {"code"} |->
                           IF k = "code" THEN code ELSE vals[k]]
         IN  <<filled>> \o FillCodesNoCache(run, i + 1, cache, used)
    ELSE <<run[i]>> \o FillCodesNoCache(run, i + 1, cache, used)

\* The loop of create over the vals of one run, from index i on: the code of a
\* vals with a prefix comes from the allocator and goes into the cache.
RECURSIVE FillCodes(_, _, _, _)
FillCodes(run, i, cache, used) ==
    IF i > Len(run) THEN <<>>
    ELSE IF "prefix" \in DOMAIN run[i]
    THEN LET vals == run[i]
             code == SearchNewAccountCode(StartCode(vals["prefix"], vals["code_digits"]), cache, used)
             filled == [k \in ((DOMAIN vals) \ {"prefix", "code_digits"}) \cup {"code"} |->
                           IF k = "code" THEN code ELSE vals[k]]
         IN  <<filled>> \o FillCodes(run, i + 1, cache \cup {code}, used)
    ELSE <<run[i]>> \o FillCodes(run, i + 1, cache, used)

\* The loop of create over the runs of vals_list: the accounts of a run are
\* created in the company of the run, with ids from next on.  The result is
\* how it ended, the table and the ids of the records created.
RECURSIVE CreateRuns(_, _, _, _)
CreateRuns(accs, next, env_company, vals_list) ==
    IF vals_list = <<>> THEN [outcome |-> "ok", accounts |-> accs, ids |-> <<>>]
    ELSE LET n == RunLength(vals_list, 1)
             key == CompanyKey(vals_list[1])
             company == IF key = NoCompany THEN env_company ELSE key
             run == FillCodes(SubSeq(vals_list, 1, n), 1, {}, UsedCodes(accs, company))
             code(i) == IF "code" \in DOMAIN run[i] THEN run[i]["code"] ELSE <<>>
             created == [id \in (DOMAIN accs) \cup (next..(next + n - 1)) |->
                            IF id \in DOMAIN accs THEN accs[id]
                            ELSE NewAccount(company, code(id - next + 1))]
             rest == CreateRuns(created, next + n, env_company,
                                SubSeq(vals_list, n + 1, Len(vals_list)))
         IN  IF \E i \in 1..n : code(i) = NoCodeFound
             THEN [outcome |-> "UserError", accounts |-> accs, ids |-> <<>>]
             ELSE IF \E i \in 1..n : CheckAccountCode(code(i))
             THEN [outcome |-> "ValidationError", accounts |-> accs, ids |-> <<>>]
             ELSE [rest EXCEPT !.ids = [i \in 1..n |-> next + i - 1] \o @]

\* AccountAccount.create(vals_list) with env.company = company.  The check of
\* the codes runs with allowed_company_ids = records.company_ids.ids, the
\* first of which is the company of the first record.  An exception leaves
\* the transaction to be rolled back.  With history, last keeps the vals, the
\* table before the call, the table as the loop over the runs left it and the
\* ids of the records created.
AccountCreateLogged(company, vals_list, history) ==
    /\ \E r \in {CreateRuns(accounts, nextAccountId, company, vals_list)} :
       LET records == {r.ids[i] : i \in 1..Len(r.ids)}
           first == CHOOSE c \in Companies : c \in r.accounts[r.ids[1]].company_ids
           ok == r.outcome = "ok" /\ ~EnsureCodeIsUnique(r.accounts, records, first)
           outcome == IF ok THEN "ok"
                      ELSE IF r.outcome = "ok" THEN "ValidationError" ELSE r.outcome
       IN  /\ accounts' = IF ok THEN r.accounts ELSE accounts
           /\ nextAccountId' = IF ok THEN nextAccountId + Len(vals_list) ELSE nextAccountId
           /\ last' = IF history
                      THEN [op |-> "create", outcome |-> outcome, company |-> company,
                            vals_list |-> vals_list, pre |-> accounts,
                            written |-> r.accounts, ids |-> r.ids]
                      ELSE [op |-> "create", outcome |-> outcome]
    /\ UNCHANGED <<lines, references, lockDates, groups, nextGroupId, alloc>>

\* A create of the accounts that the chart has room for.
AccountCreate(company, vals_list) ==
    /\ nextAccountId + Len(vals_list) - 1 <= MaxAccounts
    /\ AccountCreateLogged(company, vals_list, FALSE)

\* The vals of a write of the code or of the companies.
WriteVals ==
    {[code |-> code] : code \in CodeValues \cup {<<>>, BadCode}}
    \cup {[company_ids |-> company_ids] : company_ids \in SUBSET Companies}

\* One account after super().write(vals) with env.company = company.
WriteAccount(account, company, vals) ==
    IF "code" \in DOMAIN vals
    THEN [account EXCEPT !.code[company] = vals["code"]]
    ELSE [account EXCEPT !.company_ids = vals["company_ids"]]

\* AccountAccount.write(vals) on the records ids of table accs with
\* env.company = company: the constraints of the fields written, then
\* _ensure_code_is_unique.  The result is how it ended and the table written.
WriteResult(accs, lns, company, ids, vals) ==
    LET written == [id \in DOMAIN accs |->
                       IF id \in ids THEN WriteAccount(accs[id], company, vals) ELSE accs[id]]
        outcome ==
            IF "code" \in DOMAIN vals /\ CheckAccountCode(vals["code"])
            THEN "ValidationError"
            ELSE IF /\ "company_ids" \in DOMAIN vals
                    /\ CheckCompanyConsistency(written, lns, ids) # "ok"
            THEN CheckCompanyConsistency(written, lns, ids)
            ELSE IF EnsureCodeIsUnique(written, ids, company) THEN "ValidationError"
            ELSE "ok"
    IN  [outcome |-> outcome, accounts |-> written]

\* A call of write.  An exception leaves the transaction to be rolled back.
AccountWrite(company, ids, vals) ==
    /\ ids # {} /\ ids \subseteq DOMAIN accounts /\ Cardinality(ids) <= MaxBatch
    /\ \E r \in {WriteResult(accounts, lines, company, ids, vals)} :
           /\ accounts' = IF r.outcome = "ok" THEN r.accounts ELSE accounts
           /\ last' = [op |-> "write", outcome |-> r.outcome]
    /\ UNCHANGED <<nextAccountId, lines, references, lockDates, groups, nextGroupId, alloc>>

-----------------------------------------------------------------------------
(* account.account: action_merge *)

\* How many accounts a merge is called on.
MaxMerged == 3

\* account_to_merge_into = None
NoAccount == 0

Range(seq) == {seq[i] : i \in 1..Len(seq)}

\* The elements of a set of numbers in ascending order (the order of the
\* records of company_ids).
RECURSIVE Sorted(_)
Sorted(S) ==
    IF S = {} THEN <<>>
    ELSE LET m == CHOOSE x \in S : \A y \in S : x <= y
         IN  <<m>> \o Sorted(S \ {m})

\* The companies of the accounts of ids in the order in which the loop over
\* the accounts and their companies meets them first.
RECURSIVE CompaniesInOrder(_, _, _)
CompaniesInOrder(accs, ids, i) ==
    IF i = 0 THEN <<>>
    ELSE LET before == CompaniesInOrder(accs, ids, i - 1)
         IN  before \o SelectSeq(Sorted(accs[ids[i]].company_ids),
                                 LAMBDA company : company \notin Range(before))

\* A dict is the sequence of its <<key, value>> pairs in insertion order.
DictKeys(d) == {d[i][1] : i \in 1..Len(d)}

DictGet(d, key) == d[CHOOSE i \in 1..Len(d) : d[i][1] = key][2]

DictSet(d, key, value) ==
    IF key \in DictKeys(d)
    THEN [i \in 1..Len(d) |-> IF d[i][1] = key THEN <<key, value>> ELSE d[i]]
    ELSE Append(d, <<key, value>>)

\* A search_count of the lines of an account, posted or not, hashed or not.
HasAnyEntries(lns, a) == \E l \in DOMAIN lns : lns[l].account_id = a

\* search_count of the posted lines of an account that carry a hash
HasHashedEntries(lns, a) ==
    \E l \in DOMAIN lns : /\ lns[l].account_id = a
                          /\ lns[l].parent_state = "posted"
                          /\ lns[l].inalterable_hash

\* The earlier of the two lock dates.
EarlierLockDate(locks, company) ==
    IF locks[company].user_fiscalyear_lock_date <= locks[company].user_hard_lock_date
    THEN locks[company].user_fiscalyear_lock_date
    ELSE locks[company].user_hard_lock_date

\* max(company.user_fiscalyear_lock_date, company.user_hard_lock_date), where
\* 0 is the falsy value of a company without lock date.
UserLockDate(locks, company) ==
    IF locks[company].user_fiscalyear_lock_date >= locks[company].user_hard_lock_date
    THEN locks[company].user_fiscalyear_lock_date
    ELSE locks[company].user_hard_lock_date

\* A search_count of the posted lines dated before the lock date only.
HasEntriesBeforeLock(lns, a, company, user_lock_date) ==
    \E l \in DOMAIN lns : /\ lns[l].account_id = a
                          /\ lns[l].company_id = company
                          /\ lns[l].parent_state = "posted"
                          /\ lns[l].date < user_lock_date

\* search_count of the posted lines of an account in a company dated on or
\* before the lock date
HasLockedEntries(lns, a, company, user_lock_date) ==
    \E l \in DOMAIN lns : /\ lns[l].account_id = a
                          /\ lns[l].company_id = company
                          /\ lns[l].parent_state = "posted"
                          /\ lns[l].date <= user_lock_date

\* set(self.mapped(field)): the values of the field; mapped on the many2one
\* currency_id gives the currencies, and an account without currency gives none.
Mapped(accs, ids, field) ==
    LET values == {accs[a][field] : a \in Range(ids)}
    IN  IF field = "currency_id" THEN values \ {NoCurrency} ELSE values

MergeFields == {"currency_id", "deprecated", "account_type", "reconcile", "non_trade"}

\* The loop of _check_action_merge_possible over accounts_by_company, from
\* index i of companies on.  into is the account with hashed entries or
\* NoAccount.  The result says which error was raised, if any.
RECURSIVE LockLoop(_, _, _, _, _, _, _, _)
LockLoop(accs, lns, locks, ids, into, companies, i, code_by_company) ==
    IF i > Len(companies) THEN [error |-> "none", code_by_company |-> code_by_company]
    ELSE LET company == companies[i]
             accts == SelectSeq(ids, LAMBDA a : company \in accs[a].company_ids)
             user_lock_date == UserLockDate(locks, company)
             locked_accounts == {a \in Range(accts) :
                                    HasLockedEntries(lns, a, company, user_lock_date)}
             Continue(d) == LockLoop(accs, lns, locks, ids, into, companies, i + 1, d)
         IN  IF Len(accts) > 1 /\ user_lock_date # 0
             THEN IF locked_accounts = {} THEN Continue(code_by_company)
                  ELSE IF /\ company \in DictKeys(code_by_company)
                          /\ locked_accounts # (IF into = NoAccount THEN {} ELSE {into})
                  THEN [error |-> "locked and hashed", code_by_company |-> code_by_company]
                  ELSE IF Cardinality(locked_accounts) = 1
                  THEN Continue(DictSet(code_by_company, company,
                                        accs[CHOOSE a \in locked_accounts : TRUE].code[company]))
                  ELSE [error |-> "both locked", code_by_company |-> code_by_company]
             ELSE Continue(DictSet(code_by_company, company, accs[accts[1]].code[company]))

\* _check_action_merge_possible on the accounts of the sequence ids: the
\* error raised ("none" when it returns), account_to_merge_into and
\* code_by_company.
CheckActionMergePossible(accs, lns, locks, ids) ==
    LET accounts_with_hashed_entries == {a \in Range(ids) : HasHashedEntries(lns, a)}
        into == IF Cardinality(accounts_with_hashed_entries) = 1
                THEN CHOOSE a \in accounts_with_hashed_entries : TRUE
                ELSE NoAccount
        own == IF into = NoAccount THEN <<>> ELSE Sorted(accs[into].company_ids)
        start == [k \in 1..Len(own) |-> <<own[k], accs[into].code[own[k]]>>]
        loop == LockLoop(accs, lns, locks, ids, into,
                         CompaniesInOrder(accs, ids, Len(ids)), 1, start)
        Raise(error) == [error |-> error, account_to_merge_into |-> NoAccount,
                         code_by_company |-> <<>>]
    IN  IF Len(ids) < 2 THEN Raise("less than 2 accounts")
        ELSE IF \E field \in MergeFields : Cardinality(Mapped(accs, ids, field)) > 1
        THEN Raise("fields differ")
        ELSE IF Cardinality(accounts_with_hashed_entries) > 1 THEN Raise("several hashed")
        ELSE IF loop.error # "none" THEN Raise(loop.error)
        ELSE [error |-> "none",
              account_to_merge_into |-> IF into # NoAccount THEN into ELSE ids[1],
              code_by_company |-> loop.code_by_company]

\* An is_irreversible that is true when the counts are equal.
IsIrreversibleWhenDisjoint(accs, ids) ==
    LET Sum[i \in 0..Len(ids)] ==
            IF i = 0 THEN 0 ELSE Sum[i - 1] + Cardinality(accs[ids[i]].company_ids)
    IN  Cardinality(UNION {accs[a].company_ids : a \in Range(ids)}) = Sum[Len(ids)]

\* is_irreversible of _action_merge_get_user_confirmation
IsIrreversible(accs, ids) ==
    LET Sum[i \in 0..Len(ids)] ==
            IF i = 0 THEN 0 ELSE Sum[i - 1] + Cardinality(accs[ids[i]].company_ids)
    IN  Cardinality(UNION {accs[a].company_ids : a \in Range(ids)}) # Sum[Len(ids)]

\* wiz._update_foreign_keys_generic: the foreign keys on the accounts removed
\* point at the account merged into.
UpdateForeignKeysGeneric(lns, accounts_to_remove, into) ==
    [l \in DOMAIN lns |->
        IF lns[l].account_id \in accounts_to_remove
        THEN [lns[l] EXCEPT !.account_id = into] ELSE lns[l]]

\* wiz._update_reference_fields_generic: the same for the references.
UpdateReferenceFieldsGeneric(refs, accounts_to_remove, into) ==
    [r \in DOMAIN refs |-> IF refs[r] \in accounts_to_remove THEN into ELSE refs[r]]

\* A DELETE that deletes nothing.
DeleteNoAccount(accs, accounts_to_remove) == accs

\* DELETE FROM account_account WHERE id IN accounts_to_remove
DeleteAccounts(accs, accounts_to_remove) ==
    [id \in (DOMAIN accs) \ accounts_to_remove |-> accs[id]]

\* Step 5 of _action_merge from index i of code_by_company on: each code is
\* written on the account with the company of the code as env.company.
RECURSIVE WriteCodes(_, _, _, _, _)
WriteCodes(accs, lns, into, code_by_company, i) ==
    IF i > Len(code_by_company) THEN [outcome |-> "ok", accounts |-> accs]
    ELSE LET r == WriteResult(accs, lns, code_by_company[i][1], {into},
                              [code |-> code_by_company[i][2]])
         IN  IF r.outcome # "ok" THEN r
             ELSE WriteCodes(r.accounts, lns, into, code_by_company, i + 1)

\* Where a failure of the store is made to happen in _action_merge: nowhere,
\* after the update of the references, or after the DELETE.
FaultPoints == {"none", "references", "delete"}

\* An _action_merge that does not look at the companies of the user.
ActionMergeUnchecked(accs, lns, refs, company, ids, into, code_by_company, user_companies, fault) ==
    LET company_ids_to_write == UNION {accs[a].company_ids : a \in Range(ids)}
        accounts_to_remove == Range(ids) \ {into}
        lns1 == UpdateForeignKeysGeneric(lns, accounts_to_remove, into)
        refs1 == UpdateReferenceFieldsGeneric(refs, accounts_to_remove, into)
        accs1 == DeleteAccounts(accs, accounts_to_remove)
        coded == WriteCodes(accs1, lns1, into, code_by_company, 1)
        final == WriteResult(coded.accounts, lns1, company, {into},
                             [company_ids |-> company_ids_to_write])
        Ended(outcome, a, l, r) ==
            [outcome |-> outcome, accounts |-> a, lines |-> l, references |-> r]
    IN  IF fault = "references" THEN Ended("Fault", accs, lns1, refs1)
        ELSE IF fault = "delete" THEN Ended("Fault", accs1, lns1, refs1)
        ELSE IF coded.outcome # "ok" THEN Ended(coded.outcome, coded.accounts, lns1, refs1)
        ELSE Ended(final.outcome, final.accounts, lns1, refs1)

\* _action_merge with env.company = company and env.user.company_ids =
\* user_companies: how it ended and the tables as it left them, written up to
\* the exception when there is one.
ActionMergeExec(accs, lns, refs, company, ids, into, code_by_company, user_companies, fault) ==
    LET company_ids_to_write == UNION {accs[a].company_ids : a \in Range(ids)}
        accounts_to_remove == Range(ids) \ {into}
        lns1 == UpdateForeignKeysGeneric(lns, accounts_to_remove, into)
        refs1 == UpdateReferenceFieldsGeneric(refs, accounts_to_remove, into)
        accs1 == DeleteAccounts(accs, accounts_to_remove)
        coded == WriteCodes(accs1, lns1, into, code_by_company, 1)
        final == WriteResult(coded.accounts, lns1, company, {into},
                             [company_ids |-> company_ids_to_write])
        Ended(outcome, a, l, r) ==
            [outcome |-> outcome, accounts |-> a, lines |-> l, references |-> r]
    IN  IF company_ids_to_write \ user_companies # {} THEN Ended("UserError", accs, lns, refs)
        ELSE IF fault = "references" THEN Ended("Fault", accs, lns1, refs1)
        ELSE IF fault = "delete" THEN Ended("Fault", accs1, lns1, refs1)
        ELSE IF coded.outcome # "ok" THEN Ended(coded.outcome, coded.accounts, lns1, refs1)
        ELSE Ended(final.outcome, final.accounts, lns1, refs1)

\* Three steps of which the second never asks.
MergeResultUnasked(accs, lns, refs, locks, company, ids, confirm, user_companies, fault) ==
    LET check == CheckActionMergePossible(accs, lns, locks, ids)
        exec == ActionMergeExec(accs, lns, refs, company, ids, check.account_to_merge_into,
                                check.code_by_company, user_companies, fault)
        failed == check.error # "none"
    IN  [step |-> IF failed THEN 1 ELSE 3,
         outcome |-> IF failed THEN "UserError" ELSE exec.outcome,
         error |-> check.error,
         account_to_merge_into |-> check.account_to_merge_into,
         code_by_company |-> check.code_by_company,
         accounts |-> IF failed THEN accs ELSE exec.accounts,
         lines |-> IF failed THEN lns ELSE exec.lines,
         references |-> IF failed THEN refs ELSE exec.references]

\* The three steps of action_merge: the step in which the call ended, how it
\* ended, what step 1 returned and the tables as the call left them.
MergeResult(accs, lns, refs, locks, company, ids, confirm, user_companies, fault) ==
    LET check == CheckActionMergePossible(accs, lns, locks, ids)
        exec == ActionMergeExec(accs, lns, refs, company, ids, check.account_to_merge_into,
                                check.code_by_company, user_companies, fault)
        Ended(step, outcome, a, l, r) ==
            [step |-> step, outcome |-> outcome, error |-> check.error,
             account_to_merge_into |-> check.account_to_merge_into,
             code_by_company |-> check.code_by_company,
             accounts |-> a, lines |-> l, references |-> r]
    IN  IF check.error # "none" THEN Ended(1, "UserError", accs, lns, refs)
        ELSE IF ~confirm THEN Ended(2, "RedirectWarning", accs, lns, refs)
        ELSE Ended(3, exec.outcome, exec.accounts, exec.lines, exec.references)

\* The rollback of the transaction of a call that raised: the tables are as
\* they were when the call began.
Rollback(pre, written) == pre

\* The sequences of distinct accounts a merge is called on.
MergeOrders ==
    {ids \in UNION {[1..n -> DOMAIN accounts] : n \in 1..MaxMerged} :
        \A i, j \in 1..Len(ids) : i # j => ids[i] # ids[j]}

\* A call of action_merge on the accounts of ids, with account_merge_confirm
\* in the context or not.  An input that the call does not read has one value:
\* confirm when step 1 raises, and the company, the companies of the user and
\* the fault when step 3 is not reached.  With history, last keeps the inputs,
\* the tables before the call and the tables as the call left them.
ActionMerge(company, ids, confirm, user_companies, fault, history) ==
    /\ Len(ids) \in 1..MaxMerged
    /\ Range(ids) \subseteq DOMAIN accounts
    /\ \A i, j \in 1..Len(ids) : i # j => ids[i] # ids[j]
    /\ \E m \in {MergeResult(accounts, lines, references, lockDates, company, ids,
                             confirm, user_companies, fault)} :
       LET pre == [accounts |-> accounts, lines |-> lines, references |-> references]
           written == [accounts |-> m.accounts, lines |-> m.lines,
                       references |-> m.references]
           post == IF m.outcome = "ok" THEN written ELSE Rollback(pre, written)
       IN  /\ m.step = 1 => ~confirm
           /\ m.step # 3 => company = 1 /\ user_companies = Companies /\ fault = "none"
           /\ accounts' = post.accounts
           /\ lines' = post.lines
           /\ references' = post.references
           /\ last' = IF history
                      THEN [op |-> "merge", outcome |-> m.outcome, step |-> m.step,
                            error |-> m.error, ids |-> ids, confirm |-> confirm,
                            company |-> company, user_companies |-> user_companies,
                            fault |-> fault,
                            account_to_merge_into |-> m.account_to_merge_into,
                            code_by_company |-> m.code_by_company,
                            is_irreversible |-> IsIrreversible(accounts, ids),
                            pre |-> pre, written |-> written]
                      ELSE [op |-> "merge", outcome |-> m.outcome]
    /\ UNCHANGED <<nextAccountId, lockDates, groups, nextGroupId, alloc>>

-----------------------------------------------------------------------------
(* Accounts from an empty chart on: creates, writes and merges *)

NoLockDate == [user_fiscalyear_lock_date |-> 0, user_hard_lock_date |-> 0]

Init ==
    /\ accounts = <<>>
    /\ nextAccountId = 1
    /\ lines = <<>>
    /\ references = <<>>
    /\ lockDates = [company \in Companies |-> NoLockDate]
    /\ groups = <<>>
    /\ nextGroupId = 1
    /\ alloc = NoAlloc
    /\ last = NoLast

Next ==
    \/ \E company \in Companies, vals_list \in CreateValsLists :
           AccountCreate(company, vals_list)
    \/ \E company \in Companies, ids \in SUBSET DOMAIN accounts, vals \in WriteVals :
           AccountWrite(company, ids, vals)
    \/ \E company \in Companies, ids \in MergeOrders, confirm \in BOOLEAN :
           ActionMerge(company, ids, confirm, Companies, "none", FALSE)

Spec == Init /\ [][Next]_vars

\* C1: every account has a code in each of its companies, and no two accounts
\* that share a company have the same code in it.
C1_CodesSetAndUnique ==
    /\ \A a \in DOMAIN accounts : \A company \in accounts[a].company_ids :
           accounts[a].code[company] # <<>>
    /\ \A a \in DOMAIN accounts : \A b \in (DOMAIN accounts) \ {a} :
           \A company \in accounts[a].company_ids \cap accounts[b].company_ids :
               accounts[a].code[company] # accounts[b].code[company]

-----------------------------------------------------------------------------
(* One merge in a chart of accounts with journal items and lock dates *)

\* How many journal items the chart holds.
MaxLines == 2

\* The fields that _check_action_merge_possible compares, as create sets them,
\* and with one of them changed.
BaseProfile ==
    [currency_id |-> NoCurrency, deprecated |-> FALSE, account_type |-> "asset_current",
     reconcile |-> FALSE, non_trade |-> FALSE]

Profiles ==
    { BaseProfile,
      [BaseProfile EXCEPT !.currency_id = 1],
      [BaseProfile EXCEPT !.currency_id = 2],
      [BaseProfile EXCEPT !.deprecated = TRUE],
      [BaseProfile EXCEPT !.account_type = "expense"],
      [BaseProfile EXCEPT !.reconcile = TRUE],
      [BaseProfile EXCEPT !.non_trade = TRUE] }

\* The code of account id in a company of its own: no two of them are equal.
ChartCode(id, company) == <<"4", DigitChar(company), DigitChar(id)>>

ChartAccount(id, company_ids, profile) ==
    [company_ids |-> company_ids,
     code |-> [c \in Companies |-> IF c \in company_ids THEN ChartCode(id, c) ELSE <<>>]]
    @@ profile

\* Journal items: posted after the lock date, posted on it or before, the same
\* two with a hash, and a draft.  Date 1 is the lock date that a company may
\* have, date 2 is later.
LineKinds ==
    { [parent_state |-> "posted", inalterable_hash |-> FALSE, date |-> 2],
      [parent_state |-> "posted", inalterable_hash |-> FALSE, date |-> 1],
      [parent_state |-> "posted", inalterable_hash |-> TRUE, date |-> 2],
      [parent_state |-> "posted", inalterable_hash |-> TRUE, date |-> 1],
      [parent_state |-> "draft", inalterable_hash |-> FALSE, date |-> 1] }

\* The kinds among them that decide the account merged into and the codes.
DecidingKinds == {kind \in LineKinds : kind.inalterable_hash \/ kind.date = 1} 

\* The journal items that the accounts of accs can have, each in a company of
\* its account.
LinesOf(accs, kinds) ==
    {[account_id |-> a, company_id |-> company] @@ kind :
        a \in DOMAIN accs, company \in Companies, kind \in kinds}
    \ {line \in [account_id : DOMAIN accs, company_id : Companies,
                 parent_state : {"posted", "draft"}, inalterable_hash : BOOLEAN,
                 date : {1, 2}] : line.company_id \notin accs[line.account_id].company_ids}

\* The sets of at most n of them.
RECURSIVE LineSets(_, _)
LineSets(universe, n) ==
    IF n = 0 THEN {{}}
    ELSE LET fewer == LineSets(universe, n - 1)
         IN  fewer \cup {set \cup {line} : set \in fewer, line \in universe}

\* The rows of a set of journal items, with ids from 1 on.
Rows(set) ==
    CHOOSE rows \in [1..Cardinality(set) -> set] :
        \A i, j \in 1..Cardinality(set) : i # j => rows[i] # rows[j]

LockDateChoices == {NoLockDate, [user_fiscalyear_lock_date |-> 1, user_hard_lock_date |-> 0]}

\* The charts a merge is made in: two accounts of company 1 with any of the
\* profiles and no journal items; two accounts of one profile with any
\* companies, journal items and lock dates; three such accounts of one company
\* each, with journal items of the deciding kinds.
Charts ==
    LET none == [company \in Companies |-> NoLockDate]
        Chart(accs, set, locks) == [accounts |-> accs, lines |-> Rows(set), lockDates |-> locks]
        profiled == {[id \in 1..2 |-> ChartAccount(id, {1}, profiles[id])] :
                        profiles \in [1..2 -> Profiles]}
        two == {[id \in 1..2 |-> ChartAccount(id, company_ids[id], BaseProfile)] :
                   company_ids \in [1..2 -> (SUBSET Companies) \ {{}}]}
        three == {[id \in 1..3 |-> ChartAccount(id, {company[id]}, BaseProfile)] :
                     company \in [1..3 -> Companies]}
    IN  {Chart(accs, {}, none) : accs \in profiled}
        \cup UNION {{Chart(accs, set, locks) :
                        set \in LineSets(LinesOf(accs, LineKinds), MaxLines),
                        locks \in [Companies -> LockDateChoices]} : accs \in two}
        \cup UNION {{Chart(accs, set, locks) :
                        set \in LineSets(LinesOf(accs, DecidingKinds), MaxLines),
                        locks \in [Companies -> LockDateChoices]} : accs \in three}

InitMerge ==
    /\ \E chart \in Charts :
           /\ accounts = chart.accounts
           /\ lines = chart.lines
           /\ lockDates = chart.lockDates
    /\ references = [id \in DOMAIN accounts |-> id]
    /\ nextAccountId = Cardinality(DOMAIN accounts) + 1
    /\ groups = <<>>
    /\ nextGroupId = 1
    /\ alloc = NoAlloc
    /\ last = NoLast

\* One call of action_merge by a user of company 1 or of both companies, in
\* one of the companies of the user.
NextMerge ==
    /\ last = NoLast
    /\ \E user_companies \in {{1}, Companies} :
       \E company \in user_companies, ids \in MergeOrders, confirm \in BOOLEAN,
          fault \in FaultPoints :
           ActionMerge(company, ids, confirm, user_companies, fault, TRUE)

SpecMerge == InitMerge /\ [][NextMerge]_vars

\* The tables that a merge writes.
Tables == [accounts |-> accounts, lines |-> lines, references |-> references]

\* C3: after a merge of two accounts of which A alone holds a posted hashed
\* entry, in either order of the two, A is there and B is not, A has in each
\* company it was in the code it had, and what referred to B refers to A.
C3_HashedAccountKept ==
    (last.op = "merge" /\ last.outcome = "ok" /\ Len(last.ids) = 2) =>
        \A A \in Range(last.ids) : \A B \in Range(last.ids) \ {A} :
            (HasHashedEntries(last.pre.lines, A) /\ ~HasHashedEntries(last.pre.lines, B)) =>
                /\ A \in DOMAIN accounts
                /\ B \notin DOMAIN accounts
                /\ \A company \in last.pre.accounts[A].company_ids :
                       accounts[A].code[company] = last.pre.accounts[A].code[company]
                /\ \A l \in DOMAIN lines :
                       last.pre.lines[l].account_id = B => lines[l].account_id = A
                /\ \A r \in DOMAIN references :
                       last.pre.references[r] = B => references[r] = A

\* C4: a merge of fewer than 2 accounts, or of accounts two of which differ in
\* currency, deprecated, account type, reconcile or non_trade, raises UserError
\* and changes no table.
C4_DifferingAccountsRefused ==
    (/\ last.op = "merge"
     /\ \/ Len(last.ids) < 2
        \/ \E field \in MergeFields : \E a, b \in Range(last.ids) :
               last.pre.accounts[a][field] # last.pre.accounts[b][field])
        => (last.outcome = "UserError" /\ Tables = last.pre)

C6_Committed ==
    (last.op = "merge" /\ last.outcome = "ok") =>
        LET into == last.account_to_merge_into
            removed == Range(last.ids) \ {into}
        IN  /\ removed \cap DOMAIN accounts = {}
            /\ into \in Range(last.ids)
            /\ into \in DOMAIN accounts
            /\ DOMAIN lines = DOMAIN last.pre.lines
            /\ \A l \in DOMAIN lines :
                   lines[l].account_id = IF last.pre.lines[l].account_id \in removed
                                         THEN into ELSE last.pre.lines[l].account_id
            /\ DOMAIN references = DOMAIN last.pre.references
            /\ \A r \in DOMAIN references :
                   references[r] = IF last.pre.references[r] \in removed
                                   THEN into ELSE last.pre.references[r]
            /\ accounts[into].company_ids
                   = UNION {last.pre.accounts[a].company_ids : a \in Range(last.ids)}
            /\ \A company \in DictKeys(last.code_by_company) :
                   accounts[into].code[company] = DictGet(last.code_by_company, company)

\* A merge of three accounts that went through, with a line on an account
\* merged away and more companies than the account merged into had.
C6_Witness ==
    /\ last.op = "merge"
    /\ last.outcome = "ok"
    /\ Len(last.ids) = 3
    /\ \E l \in DOMAIN lines :
           last.pre.lines[l].account_id \in Range(last.ids) \ {last.account_to_merge_into}
    /\ accounts[last.account_to_merge_into].company_ids
           # last.pre.accounts[last.account_to_merge_into].company_ids

-----------------------------------------------------------------------------
(* _ensure_code_is_unique on its own, as create calls it: the records checked  *)
(* are the accounts that the call created, after the accounts that were there, *)
(* and env.company is the company of the first of them                         *)

\* The tables of accounts of one company each, with a code in it or none.
GuardTables ==
    UNION {[1..n -> {NewAccount(company, code) :
                        company \in Companies, code \in CodeValues \cup {<<>>}}] :
              n \in 2..MaxAccounts}

InitGuard ==
    /\ accounts \in GuardTables
    /\ nextAccountId = Cardinality(DOMAIN accounts) + 1
    /\ lines = <<>>
    /\ references = <<>>
    /\ lockDates = [company \in Companies |-> NoLockDate]
    /\ groups = <<>>
    /\ nextGroupId = 1
    /\ alloc = NoAlloc
    /\ \E first \in DOMAIN accounts :
           last = [op |-> "call",
                   ids |-> {id \in DOMAIN accounts : id >= first},
                   company |-> CHOOSE c \in Companies : c \in accounts[first].company_ids]

\* One call of _ensure_code_is_unique on the records last.ids with
\* env.company = last.company.
EnsureUnique ==
    /\ last.op = "call"
    /\ last' = [op |-> "_ensure_code_is_unique", ids |-> last.ids, company |-> last.company,
                raised |-> EnsureCodeIsUnique(accounts, last.ids, last.company)]
    /\ UNCHANGED <<accounts, nextAccountId, lines, references, lockDates, groups, nextGroupId, alloc>>

NextGuard == EnsureUnique

SpecGuard == InitGuard /\ [][NextGuard]_vars

\* Two accounts of the set checked have a company in common and the same code
\* in it.
SharedCodeIn(ids) ==
    \E a \in ids : \E b \in ids \ {a} :
        \E company \in accounts[a].company_ids \cap accounts[b].company_ids :
            /\ accounts[a].code[company] # <<>>
            /\ accounts[a].code[company] = accounts[b].code[company]

\* Nothing else is wrong with the set checked: each account has a code in each
\* of its companies, and no account outside the set has, in a company, the code
\* that an account of the set has in it.
NoOtherFault(ids) ==
    /\ \A a \in ids : \A company \in accounts[a].company_ids : accounts[a].code[company] # <<>>
    /\ \A a \in ids : \A o \in (DOMAIN accounts) \ ids : \A company \in Companies :
           accounts[a].code[company] # <<>> => accounts[o].code[company] # accounts[a].code[company]

\* C11: _ensure_code_is_unique raises for a set in which two accounts have a
\* company in common and the same code in it, and does not raise for a set in
\* which the codes differ or the accounts have no company in common.
C11_GuardRaisesOnSharedCode ==
    last.op = "_ensure_code_is_unique" =>
        /\ SharedCodeIn(last.ids) => last.raised
        /\ (~SharedCodeIn(last.ids) /\ NoOtherFault(last.ids)) => ~last.raised

\* C12: action_merge writes nothing unless step 1 returned and the call has
\* account_merge_confirm: a call without it that passes step 1 ends in step 2
\* with the RedirectWarning and every table as it was, and a call with it that
\* passes step 1 goes on to step 3.
C12_NoWriteBeforeConfirm ==
    last.op = "merge" =>
        /\ last.written # last.pre => (last.error = "none" /\ last.confirm /\ last.step = 3)
        /\ last.error # "none" => (last.step = 1 /\ Tables = last.pre)
        /\ (last.error = "none" /\ ~last.confirm)
               => /\ last.step = 2
                  /\ last.outcome = "RedirectWarning"
                  /\ last.written = last.pre
                  /\ Tables = last.pre
        /\ (last.error = "none" /\ last.confirm) => last.step = 3

\* A call without account_merge_confirm on accounts with a journal item, which
\* step 1 lets through: it ends in the RedirectWarning.
C12_Witness ==
    /\ last.op = "merge"
    /\ last.error = "none"
    /\ ~last.confirm
    /\ last.outcome = "RedirectWarning"
    /\ \E l \in DOMAIN lines : lines[l].account_id \in Range(last.ids) \ {last.account_to_merge_into}
    /\ Tables = last.pre

-----------------------------------------------------------------------------
(* What _search_new_account_code returns *)

\* C13: the allocator returns the start code only when no account has it and
\* it is not in the cache; with no cache given the result is never the start
\* code; with an empty cache and no account having the start code the result
\* is the start code.
C13_StartCodeOnlyWhenFree ==
    alloc.pc = "done" =>
        /\ alloc.new_code = alloc.start_code
               => /\ alloc.start_code \notin alloc.used
                  /\ alloc.cache # NoCache
                  /\ alloc.start_code \notin alloc.cache
        /\ alloc.cache = NoCache => alloc.new_code # alloc.start_code
        /\ (alloc.cache = {} /\ alloc.start_code \notin alloc.used)
               => alloc.new_code = alloc.start_code

\* A call with a cache that holds other codes than the start code, which no
\* account has: the start code is returned.
C13_Witness ==
    /\ alloc.pc = "done"
    /\ alloc.cache # NoCache
    /\ alloc.cache # {}
    /\ alloc.used # {}
    /\ alloc.new_code = alloc.start_code

\* The last run of digits of a code that has a digit: where it begins and where
\* it ends.
LastDigitRun(code) ==
    LET last_digit == CHOOSE j \in 1..Len(code) :
                          code[j] \in Digits /\ \A k \in (j + 1)..Len(code) : code[k] \notin Digits
        first_digit == CHOOSE i \in 1..last_digit :
                           /\ \A k \in i..last_digit : code[k] \in Digits
                           /\ i > 1 => code[i - 1] \notin Digits
    IN  [first |-> first_digit, last |-> last_digit]

\* The start code with its last run of digits, d of them, replaced by m
\* written with d digits.
WithLastRun(code, m) ==
    LET run == LastDigitRun(code)
    IN  SubSeq(code, 1, run.first - 1)
        \o FormatNum(m, run.last - run.first + 1)
        \o SubSeq(code, run.last + 1, Len(code))

\* The cache that a call uses.
CacheOf(a) == IF a.cache = NoCache THEN {a.start_code} ELSE a.cache

\* C14: when the start code is not available and has a digit, the allocator
\* returns the start code with its last run of digits (value n, d digits)
\* replaced by the smallest m of n+1 .. 10^d-1, written with d digits, for which
\* that code is not used and not in the cache, if there is one: a code as long
\* as the start code.  "1021A" with only "1021A" used gives "1022A".
C14_IncrementsLastDigitRun ==
    (/\ alloc.pc = "done"
     /\ \E k \in 1..Len(alloc.start_code) : alloc.start_code[k] \in Digits
     /\ alloc.start_code \in alloc.used \cup CacheOf(alloc))
        => LET run == LastDigitRun(alloc.start_code)
               d == run.last - run.first + 1
               n == StrToInt(SubSeq(alloc.start_code, run.first, run.last))
               Free(m) == WithLastRun(alloc.start_code, m) \notin alloc.used \cup CacheOf(alloc)
           IN  /\ (\E m \in (n + 1)..(Pow10(d) - 1) : Free(m))
                      => /\ alloc.new_code
                                = WithLastRun(alloc.start_code,
                                              CHOOSE m \in (n + 1)..(Pow10(d) - 1) :
                                                  Free(m) /\ \A k \in (n + 1)..(m - 1) : ~Free(k))
                         /\ Len(alloc.new_code) = Len(alloc.start_code)
               /\ (/\ alloc.start_code = <<"1", "0", "2", "1", "A">>
                   /\ alloc.used = {alloc.start_code}
                   /\ alloc.cache \in {NoCache, {}})
                      => alloc.new_code = <<"1", "0", "2", "2", "A">>

\* A call with start code "08", which an account has, as one has "09": the
\* result is "10".
C14_Witness ==
    /\ alloc.pc = "done"
    /\ alloc.start_code = <<"0", "8">>
    /\ alloc.used = {<<"0", "8">>, <<"0", "9">>}
    /\ alloc.new_code = <<"1", "0">>

\* The k-th code of the fallback: ".copy" after the start code for k = 1, and
\* ".copy" and k after it for k = 2 .. 99.
CopyCandidate(start_code, k) ==
    start_code \o <<".", "c", "o", "p", "y">> \o (IF k = 1 THEN <<>> ELSE IntToStr(k))

-----------------------------------------------------------------------------
(* _search_new_account_code step by step: each test of code_is_available is a *)
(* step, and the method runs on until it returns or raises                    *)

\* Every code that a call with this start code can test.
AllCandidates(start_code) ==
    LET g == RegexGroups(start_code)
        n == StrToInt(g.digits_str)
    IN  {start_code}
        \cup (IF g.digits_str = <<>> THEN {}
              ELSE {NumCode(start_code, num) : num \in (n + 1)..(Pow10(Len(g.digits_str)) - 1)})
        \cup {CopyCode(start_code, num) : num \in 0..(CopyRange - 1)}

\* The start codes with at most as many numbered codes after them as there are
\* copy codes.
ShortStartCodes ==
    {start_code \in StartCodes :
        LET g == RegexGroups(start_code)
        IN  Pow10(Len(g.digits_str)) - StrToInt(g.digits_str) <= CopyRange}

\* The codes that the accounts have: some of the first codes tested, or, for a
\* short start code, all the codes tested or all but the last.
UsedChoices(start_code) ==
    (SUBSET Near(start_code))
    \cup (IF start_code \in ShortStartCodes
          THEN {AllCandidates(start_code),
                AllCandidates(start_code) \ {CopyCode(start_code, CopyRange - 1)}}
          ELSE {})

InitAllocLoop ==
    /\ accounts = <<>>
    /\ nextAccountId = 1
    /\ lines = <<>>
    /\ references = <<>>
    /\ lockDates = <<>>
    /\ groups = <<>>
    /\ nextGroupId = 1
    /\ last = NoLast
    /\ \E start_code \in StartCodes :
       \E used \in UsedChoices(start_code) :
       \E cache \in {NoCache, {}} :
           alloc = [pc |-> "start", start_code |-> start_code, cache |-> cache,
                    used |-> used, num |-> 0, new_code |-> <<>>]

\* A number that range() gives twice.
SameNum(num) == num

\* The number that range() gives after num.
NextNum(num) == num + 1

AllocAvailable(a, new_code) ==
    CodeIsAvailable(new_code, DefaultCache(a.start_code, a.cache), a.used)

AllocUnchanged ==
    UNCHANGED <<accounts, nextAccountId, lines, references, lockDates, groups, nextGroupId, last>>

\* The call after the test of the start code, the match of the regular
\* expression, and the entry in the loop that has a first number.
AfterCheckStart(a) ==
    LET g == RegexGroups(a.start_code)
        d == Len(g.digits_str)
        n == StrToInt(g.digits_str)
    IN  IF AllocAvailable(a, a.start_code)
        THEN [a EXCEPT !.pc = "done", !.new_code = a.start_code]
        ELSE IF g.digits_str # <<>> /\ n + 1 < Pow10(d)
        THEN [a EXCEPT !.pc = "numeric", !.num = n + 1]
        ELSE [a EXCEPT !.pc = "copy", !.num = 0]

\* The call after one turn of the loop over range(n+1, 10**d).
AfterNumericStep(a) ==
    LET d == Len(RegexGroups(a.start_code).digits_str)
        new_code == NumCode(a.start_code, a.num)
    IN  IF AllocAvailable(a, new_code)
        THEN [a EXCEPT !.pc = "done", !.new_code = new_code]
        ELSE IF NextNum(a.num) < Pow10(d)
        THEN [a EXCEPT !.num = NextNum(a.num)]
        ELSE [a EXCEPT !.pc = "copy", !.num = 0]

\* The call after one turn of the loop over range(99).
AfterCopyStep(a) ==
    LET new_code == CopyCode(a.start_code, a.num)
    IN  IF AllocAvailable(a, new_code)
        THEN [a EXCEPT !.pc = "done", !.new_code = new_code]
        ELSE IF NextNum(a.num) < CopyRange
        THEN [a EXCEPT !.num = NextNum(a.num)]
        ELSE [a EXCEPT !.pc = "raise"]

\* The call after raise UserError, which follows the loops.
AfterRaiseNoCode(a) == [a EXCEPT !.pc = "done", !.new_code = NoCodeFound]

CheckStart ==
    /\ alloc.pc = "start"
    /\ alloc' = AfterCheckStart(alloc)
    /\ AllocUnchanged

NumericStep ==
    /\ alloc.pc = "numeric"
    /\ alloc' = AfterNumericStep(alloc)
    /\ AllocUnchanged

CopyStep ==
    /\ alloc.pc = "copy"
    /\ alloc' = AfterCopyStep(alloc)
    /\ AllocUnchanged

RaiseNoCode ==
    /\ alloc.pc = "raise"
    /\ alloc' = AfterRaiseNoCode(alloc)
    /\ AllocUnchanged

NextAllocLoop == CheckStart \/ NumericStep \/ CopyStep \/ RaiseNoCode

SpecAllocLoop == InitAllocLoop /\ [][NextAllocLoop]_vars

\* How many steps a call can still take: one for each code not yet tested, the
\* start code, the numbered codes below 10^d and the 99 copy codes, and one to
\* raise.
StepsLeft(a) ==
    LET digit == \E k \in 1..Len(a.start_code) : a.start_code[k] \in Digits
        run == LastDigitRun(a.start_code)
        top == Pow10(run.last - run.first + 1)
        n == StrToInt(SubSeq(a.start_code, run.first, run.last))
    IN  CASE a.pc = "start" -> 1 + (IF digit THEN top - (n + 1) ELSE 0) + 99 + 1
          [] a.pc = "numeric" -> (top - a.num) + 99 + 1
          [] a.pc = "copy" -> (99 - a.num) + 1
          [] a.pc = "raise" -> 1
          [] a.pc = "done" -> 0

\* Where the step that a call can take leads.
StepsTo(a) ==
    CASE a.pc = "start" -> AfterCheckStart(a)
      [] a.pc = "numeric" -> AfterNumericStep(a)
      [] a.pc = "copy" -> AfterCopyStep(a)
      [] a.pc = "raise" -> AfterRaiseNoCode(a)

\* C16: a call of the allocator ends: as long as it has not ended it takes a
\* step, and each step leaves fewer codes to test, of the start code, the
\* numbered codes below 10^d and the 99 copy codes; it ends with the error
\* exactly when all of them are used or in the cache, with a code otherwise.
C16_Terminates ==
    /\ [](alloc.pc # "done" => StepsTo(alloc) # alloc)
    /\ [](StepsLeft(alloc) >= 0)
    /\ [][StepsLeft(alloc') < StepsLeft(alloc)]_alloc
    /\ [](alloc.pc = "done"
              => LET Taken(code) == code \in alloc.used \cup CacheOf(alloc)
                     digit == \E k \in 1..Len(alloc.start_code) : alloc.start_code[k] \in Digits
                     run == LastDigitRun(alloc.start_code)
                     n == StrToInt(SubSeq(alloc.start_code, run.first, run.last))
                     exhausted ==
                         /\ Taken(alloc.start_code)
                         /\ digit => \A m \in (n + 1)..(Pow10(run.last - run.first + 1) - 1) :
                                         Taken(WithLastRun(alloc.start_code, m))
                         /\ \A k \in 1..99 : Taken(CopyCandidate(alloc.start_code, k))
                 IN  /\ alloc.new_code = NoCodeFound <=> exhausted
                     /\ alloc.new_code
                            = SearchNewAccountCode(alloc.start_code, alloc.cache, alloc.used))

\* A call with start code "08" that tested "09" to "99" and the 99 copy codes
\* and raised.
C16_Witness ==
    /\ alloc.pc = "done"
    /\ alloc.start_code = <<"0", "8">>
    /\ alloc.new_code = NoCodeFound

-----------------------------------------------------------------------------
(* The hierarchy of the groups after a pass of the resolver and after unlink *)

\* C17: after a pass of _adapt_parent_account_group on some companies, a group
\* of one of them that has no eligible parent has no parent, whatever parent
\* it had before.
C17_NoEligibleParentNoParent ==
    (last.outcome = "ok" /\ last.resolved # {}) =>
        \A g \in DOMAIN groups :
            (groups[g].company_id \in last.resolved /\ EligibleParents(groups, g) = {})
                => groups[g].parent_id = NoGroup

\* Creates and writes without delay_account_group_sync, and then one unlink.
NextGroupUnlink ==
    /\ "order" \notin DOMAIN last
    /\ \/ \E company \in Companies, vals \in PrefixVals : GroupCreate(company, vals, {FALSE})
       \/ \E ids \in SUBSET DOMAIN groups, vals \in PrefixVals : GroupWrite(ids, vals, {FALSE})
       \/ \E order \in UnlinkOrders : GroupUnlink(order, TRUE)

SpecGroupUnlink == InitGroup /\ [][NextGroupUnlink]_vars

\* The parent that a child of group id is left with when the groups of ids
\* are deleted: the parent of id, or of that one if it is deleted too, and so
\* on, at most steps times.
RECURSIVE ParentAfterUnlink(_, _, _, _)
ParentAfterUnlink(gs, id, ids, steps) ==
    IF id \notin ids \/ steps = 0 THEN id
    ELSE ParentAfterUnlink(gs, gs[id].parent_id, ids, steps - 1)

\* C18: an unlink of groups leaves every other group there; a group whose
\* parent was a group G deleted has the parent that G had, none when G had
\* none and the parent of that one when it is deleted in the same call, in
\* either order; no group is left with a deleted group as parent, and the
\* other groups are as they were.
C18_UnlinkSplices ==
    ("order" \in DOMAIN last /\ last.outcome = "ok") =>
        LET ids == Range(last.order)
            pre == last.pre
        IN  /\ DOMAIN groups = (DOMAIN pre) \ ids
            /\ \A c \in DOMAIN groups :
                   /\ groups[c].parent_id \notin ids
                   /\ groups[c] = [pre[c] EXCEPT
                                     !.parent_id = ParentAfterUnlink(pre, @, ids, Len(last.order))]

\* An unlink of a group and its parent, the group first, that had a child.
C18_Witness ==
    /\ "order" \in DOMAIN last
    /\ last.outcome = "ok"
    /\ Len(last.order) = 2
    /\ last.pre[last.order[1]].parent_id = last.order[2]
    /\ \E c \in DOMAIN groups : last.pre[c].parent_id = last.order[1]

-----------------------------------------------------------------------------
(* What _check_action_merge_possible raises and returns *)

\* The accounts of a merge that had a posted journal item with a hash.
HashedOf(l) ==
    {a \in Range(l.ids) :
        \E line \in Range(l.pre.lines) :
            /\ line.account_id = a
            /\ line.parent_state = "posted"
            /\ line.inalterable_hash}

\* C19: a merge of accounts of which two or more hold a posted hashed entry
\* raises in step 1; when step 1 returns, the account to merge into is one of
\* the accounts given: the one that holds a posted hashed entry if there is
\* one, the first account given if there is none.
C19_SurvivorChoice ==
    last.op = "merge" =>
        /\ Cardinality(HashedOf(last)) >= 2
               => (last.step = 1 /\ last.outcome = "UserError" /\ last.error # "none")
        /\ last.error = "none"
               => /\ last.account_to_merge_into \in Range(last.ids)
                  /\ Cardinality(HashedOf(last)) <= 1
                  /\ \A a \in HashedOf(last) : last.account_to_merge_into = a
                  /\ HashedOf(last) = {} => last.account_to_merge_into = last.ids[1]

\* A merge of three accounts that step 1 let through, the last of which holds
\* the posted hashed entry, the first one a posted entry without hash.
C19_Witness ==
    /\ last.op = "merge"
    /\ last.error = "none"
    /\ Len(last.ids) = 3
    /\ HashedOf(last) = {last.ids[3]}
    /\ last.account_to_merge_into = last.ids[3]
    /\ \E line \in Range(last.pre.lines) :
           line.account_id = last.ids[1] /\ line.parent_state = "posted"

\* The accounts of a merge that were in a company.
AccountsIn(l, company) == {a \in Range(l.ids) : company \in l.pre.accounts[a].company_ids}

\* The later of the two lock dates of a company, 0 when it has none.
LaterLockDate(company) ==
    LET dates == {lockDates[company].user_fiscalyear_lock_date,
                  lockDates[company].user_hard_lock_date}
    IN  CHOOSE d \in dates : \A e \in dates : e <= d

\* The accounts of a merge that had, in a company, a posted journal item dated
\* on the lock date of the company or before.
LockedOf(l, company) ==
    {a \in AccountsIn(l, company) :
        \E line \in Range(l.pre.lines) :
            /\ line.account_id = a
            /\ line.company_id = company
            /\ line.parent_state = "posted"
            /\ line.date <= LaterLockDate(company)}

\* C20: when a company with a lock date has two or more of the accounts of a
\* merge, and more than one of them holds a posted entry dated on the lock date
\* or before, or those that do are not just the one account with a posted
\* hashed entry, which is in the company, then the merge raises in step 1 and
\* every table is as it was.
C20_LockedAccountsRefused ==
    last.op = "merge" =>
        \A company \in Companies :
            (/\ LaterLockDate(company) # 0
             /\ Cardinality(AccountsIn(last, company)) >= 2
             /\ \/ Cardinality(LockedOf(last, company)) > 1
                \/ /\ LockedOf(last, company) # {}
                   /\ \E h \in AccountsIn(last, company) :
                          HashedOf(last) = {h} /\ LockedOf(last, company) # {h})
                => /\ last.step = 1
                   /\ last.outcome = "UserError"
                   /\ last.error # "none"
                   /\ Tables = last.pre

\* A merge of two accounts of a company with a lock date, one with a posted
\* hashed entry after the lock date, the other with a posted entry on it, that
\* was refused for these.
C20_Witness ==
    /\ last.op = "merge"
    /\ last.error = "locked and hashed"
    /\ Len(last.ids) = 2
    /\ \E company \in Companies :
           /\ Cardinality(LockedOf(last, company)) = 1
           /\ LockedOf(last, company) \cap HashedOf(last) = {}
    /\ Tables = last.pre

\* The first account of a merge, in the order given, that was in a company.
FirstIn(l, company) ==
    l.ids[CHOOSE i \in 1..Len(l.ids) :
              /\ l.ids[i] \in AccountsIn(l, company)
              /\ \A j \in 1..(i - 1) : l.ids[j] \notin AccountsIn(l, company)]

\* C21: when step 1 of a merge returns and a company with a lock date has two
\* or more of the accounts, none of which holds a posted entry dated on the
\* lock date or before, code_by_company maps the company to the code that the
\* first of these accounts, in the order given, has in it.
C21_FirstCodeWhenNoneLocked ==
    (last.op = "merge" /\ last.error = "none") =>
        \A company \in Companies :
            (/\ LaterLockDate(company) # 0
             /\ Cardinality(AccountsIn(last, company)) >= 2
             /\ LockedOf(last, company) = {})
                => /\ company \in DictKeys(last.code_by_company)
                   /\ DictGet(last.code_by_company, company)
                          = last.pre.accounts[FirstIn(last, company)].code[company]


\* C22: when step 1 of a merge returns and a company with a lock date has two
\* or more of the accounts, just one of which holds a posted entry dated on the
\* lock date or before, and the account with a posted hashed entry, if there
\* is one in the company, is that account, then code_by_company maps the
\* company to the code that account has in it, and after a merge that went
\* through the account merged into has that code in the company.
C22_LockedCodeKept ==
    (last.op = "merge" /\ last.error = "none") =>
        \A company \in Companies : \A locked \in AccountsIn(last, company) :
            (/\ LaterLockDate(company) # 0
             /\ Cardinality(AccountsIn(last, company)) >= 2
             /\ LockedOf(last, company) = {locked}
             /\ \A h \in AccountsIn(last, company) : HashedOf(last) = {h} => h = locked)
                => /\ company \in DictKeys(last.code_by_company)
                   /\ DictGet(last.code_by_company, company)
                          = last.pre.accounts[locked].code[company]
                   /\ last.outcome = "ok"
                          => accounts[last.account_to_merge_into].code[company]
                                 = last.pre.accounts[locked].code[company]

\* A merge that went through, of two accounts of a company with a lock date of
\* which the second alone holds a locked entry, and no account a hashed one:
\* the first account is merged into and its code in the company has changed.
C22_Witness ==
    /\ last.op = "merge"
    /\ last.outcome = "ok"
    /\ Len(last.ids) = 2
    /\ HashedOf(last) = {}
    /\ \E company \in Companies :
           /\ LaterLockDate(company) # 0
           /\ AccountsIn(last, company) = Range(last.ids)
           /\ LockedOf(last, company) = {last.ids[2]}
           /\ accounts[last.ids[1]].code[company] # last.pre.accounts[last.ids[1]].code[company]


-----------------------------------------------------------------------------
(* Groups edited under delay_account_group_sync, and resolver passes *)

\* Creates and writes with delay_account_group_sync in the context, and calls
\* of the resolver on some companies without it.
NextGroupDeferred ==
    \/ \E company \in Companies, vals \in PrefixVals : GroupCreate(company, vals, {TRUE})
    \/ \E ids \in SUBSET DOMAIN groups, vals \in PrefixVals : GroupWrite(ids, vals, {TRUE})
    \/ \E company_ids \in (SUBSET Companies) \ {{}} : GroupAdapt(company_ids, FALSE)

SpecGroupDeferred == InitGroup /\ [][NextGroupDeferred]_vars

\* The parent a group had before a step; a group created by the step had none.
ParentBefore(id) == IF id \in DOMAIN groups THEN groups[id].parent_id ELSE NoGroup

\* C23: a create or a write of prefixes made under the deferred-sync flag
\* changes the parent of no group, and the group created has no parent; a
\* resolver pass made without the flag afterwards gives a parent only to groups
\* of the companies it runs on, and the parent it gives is eligible by the
\* ranges as the deferred edits left them, and of the greatest prefix length
\* when the group had no parent.
C23_DeferredEditsKeepParents ==
    [][ /\ (last'.outcome = "ok" /\ last'.resolved = {})
            => \A id \in DOMAIN groups' : groups'[id].parent_id = ParentBefore(id)
        /\ (last'.resolved # {})
            => \A id \in DOMAIN groups' :
                   groups'[id].parent_id # ParentBefore(id)
                       => /\ groups'[id].company_id \in last'.resolved
                          /\ groups'[id].parent_id \in EligibleParents(groups', id)
                          /\ ParentBefore(id) = NoGroup
                                 => \A o \in EligibleParents(groups', id) :
                                        Len(groups'[o].code_prefix_start)
                                            <= Len(groups'[groups'[id].parent_id].code_prefix_start)
      ]_vars

\* After a resolver pass: a group created under the flag has for parent a
\* group created under the flag with a range of several prefixes.
C23_Witness ==
    /\ last.outcome = "ok"
    /\ last.resolved # {}
    /\ \E child \in DOMAIN groups :
           /\ groups[child].parent_id \in EligibleParents(groups, child)
           /\ groups[groups[child].parent_id].code_prefix_start
                  # groups[groups[child].parent_id].code_prefix_end


\* C24: a merge that reaches its third step while one of the accounts is in a
\* company that is not among the companies of the user raises UserError, and
\* has written nothing when it raises: accounts, lines and references are as
\* they were before the call.
C24_ForbiddenCompaniesRefused ==
    (/\ last.op = "merge"
     /\ last.step = 3
     /\ \E a \in Range(last.ids) :
            ~(last.pre.accounts[a].company_ids \subseteq last.user_companies))
        => /\ last.outcome = "UserError"
           /\ last.written = last.pre
           /\ Tables = last.pre

\* A confirmed merge by a user of company 1 alone, of two accounts one of which
\* is in company 2, with a journal item on the account to remove, that was
\* refused in the third step.
C24_Witness ==
    /\ last.op = "merge"
    /\ last.step = 3
    /\ last.fault = "none"
    /\ last.outcome = "UserError"
    /\ last.user_companies = {1}
    /\ 2 \in UNION {last.pre.accounts[a].company_ids : a \in Range(last.ids)}
    /\ \E line \in Range(last.pre.lines) :
           line.account_id \in Range(last.ids) \ {last.account_to_merge_into}
    /\ Tables = last.pre


\* Two of the accounts of a merge were in one company.
SharedCompany(l) ==
    \E a \in Range(l.ids) : \E b \in Range(l.ids) \ {a} :
        l.pre.accounts[a].company_ids \cap l.pre.accounts[b].company_ids # {}

\* C25 as stated: the confirmation step flags the merge as irreversible
\* exactly when no company is shared between the accounts given.
C25_IrreversibleWhenDisjoint ==
    (last.op = "merge" /\ last.step = 2) => (last.is_irreversible <=> ~SharedCompany(last))

\* C25, amended: the confirmation step flags the merge as irreversible exactly
\* when two of the accounts given are in one company.
C25_IrreversibleWhenShared ==
    (last.op = "merge" /\ last.step = 2) => (last.is_irreversible <=> SharedCompany(last))

\* A merge of three accounts that stopped at the confirmation and was flagged:
\* the account to merge into shares no company with the others, which share
\* one.
C25_Witness ==
    /\ last.op = "merge"
    /\ last.step = 2
    /\ last.outcome = "RedirectWarning"
    /\ last.is_irreversible
    /\ Len(last.ids) = 3
    /\ \A a \in Range(last.ids) \ {last.account_to_merge_into} :
           last.pre.accounts[a].company_ids
               \cap last.pre.accounts[last.account_to_merge_into].company_ids = {}


-----------------------------------------------------------------------------
(* _get_closest_parent_account: the account type and the tags of an account   *)
(* taken from the account of the company with the closest smaller code        *)

\* How many accounts a chart has here, the records being created included.
MaxInherit == 3

\* The codes of the accounts, with a code that is a prefix of another one.
InheritCodes == { <<"1">>, <<"1", "2">>, <<"2">> }

\* The code that an account with this code in company 1 has in company 2: the
\* codes of an account in two companies are not tied, and here their order in
\* company 2 is the reverse of their order in company 1.
CodeInOther(code) ==
    IF code = <<"1">> THEN <<"2">> ELSE IF code = <<"2">> THEN <<"1">> ELSE code

\* account.account.tag records
Tags == {1}

\* An account is a row of the table (stored) or a record that create is
\* computing the fields of, which search_read does not return.  A row has an
\* account type, which is required; a record being created has the account
\* type and the tags of its vals, if any.
InheritProfiles ==
    { [stored |-> TRUE, account_type |-> "income", tag_ids |-> {}],
      [stored |-> TRUE, account_type |-> "equity", tag_ids |-> Tags],
      [stored |-> FALSE, account_type |-> "", tag_ids |-> {}],
      [stored |-> FALSE, account_type |-> "income", tag_ids |-> Tags] }

InheritAccount(code, company_ids, profile) ==
    [company_ids |-> company_ids,
     code |-> [c \in Companies |-> IF c \notin company_ids THEN <<>>
                                   ELSE IF c = 1 THEN code ELSE CodeInOther(code)]]
    @@ profile

\* The charts: accounts of company 1 or of both companies, the rows of a
\* company having codes that differ.
InheritCharts ==
    LET options == {InheritAccount(code, company_ids, profile) :
                        code \in InheritCodes, company_ids \in {{1}, Companies},
                        profile \in InheritProfiles}
    IN  {accs \in UNION {[1..n -> options] : n \in 1..MaxInherit} :
            \A a, b \in DOMAIN accs :
                (a # b /\ accs[a].stored /\ accs[b].stored)
                    => \A c \in accs[a].company_ids \cap accs[b].company_ids :
                           accs[a].code[c] # accs[b].code[c]}

\* search_read(domain=_check_company_domain(company), order='code'): the rows
\* of the company in the order of their codes in it.
SearchReadByCode(accs, company) ==
    LET rows == {a \in DOMAIN accs : accs[a].stored /\ company \in accs[a].company_ids}
    IN  CHOOSE all_accounts \in [1..Cardinality(rows) -> rows] :
            /\ \A i, j \in 1..Cardinality(rows) : i # j => all_accounts[i] # all_accounts[j]
            /\ \A i, j \in 1..Cardinality(rows) :
                   i < j => \/ StrLT(accs[all_accounts[i]].code[company],
                                     accs[all_accounts[j]].code[company])
                            \/ /\ accs[all_accounts[i]].code[company]
                                      = accs[all_accounts[j]].code[company]
                               /\ all_accounts[i] < all_accounts[j]

\* The loop that fills accounts_with_codes, from row i of all_accounts on.
RECURSIVE AccountsWithCodes(_, _, _, _, _, _)
AccountsWithCodes(accs, company, field_name, all_accounts, i, d) ==
    IF i > Len(all_accounts) THEN d
    ELSE AccountsWithCodes(accs, company, field_name, all_accounts, i + 1,
                           DictSet(d, accs[all_accounts[i]].code[company],
                                   accs[all_accounts[i]][field_name]))

\* bisect.bisect_right(a, x): the count of the elements of a that are not
\* greater than x.
BisectRight(a, x) == Cardinality({i \in 1..Len(a) : StrLE(a[i], x)})

\* The loop of bisect_left on a[lo:hi], lo and hi counted from 0.
RECURSIVE BisectLoop(_, _, _, _)
BisectLoop(a, x, lo, hi) ==
    IF lo >= hi THEN lo
    ELSE LET mid == (lo + hi) \div 2
         IN  IF StrLT(a[mid + 1], x) THEN BisectLoop(a, x, mid + 1, hi)
             ELSE BisectLoop(a, x, lo, mid)

\* bisect.bisect_left(a, x)
BisectLeft(a, x) == BisectLoop(a, x, 0, Len(a))

\* _get_closest_parent_account with env.company = company: the accounts after
\* the loop over accounts_to_process.
GetClosestParentAccount(accs, company, accounts_to_process, field_name, default_value) ==
    LET all_accounts == SearchReadByCode(accs, company)
        accounts_with_codes == AccountsWithCodes(accs, company, field_name, all_accounts, 1, <<>>)
        codes_list == [i \in 1..Len(accounts_with_codes) |-> accounts_with_codes[i][1]]
        closest_index(account) == BisectLeft(codes_list, accs[account].code[company]) - 1
    IN  [account \in DOMAIN accs |->
            IF account \in accounts_to_process
            THEN [accs[account] EXCEPT
                    ![field_name] = IF closest_index(account) # -1
                                    THEN accounts_with_codes[closest_index(account) + 1][2]
                                    ELSE default_value]
            ELSE accs[account]]

\* _compute_account_type on the records ids with env.company = company
ComputeAccountType(company, ids) ==
    /\ ids # {} /\ ids \subseteq DOMAIN accounts
    /\ LET accounts_to_process ==
               {a \in ids : accounts[a].code[company] # <<>> /\ accounts[a].account_type = ""}
       IN  accounts' = GetClosestParentAccount(accounts, company, accounts_to_process,
                                               "account_type", "asset_current")
    /\ last' = [op |-> "account_type", company |-> company, ids |-> ids, pre |-> accounts]
    /\ UNCHANGED <<nextAccountId, lines, references, lockDates, groups, nextGroupId, alloc>>

\* _compute_account_tags on the records ids with env.company = company
ComputeAccountTags(company, ids) ==
    /\ ids # {} /\ ids \subseteq DOMAIN accounts
    /\ LET accounts_to_process ==
               {a \in ids : accounts[a].code[company] # <<>> /\ accounts[a].tag_ids = {}}
       IN  accounts' = GetClosestParentAccount(accounts, company, accounts_to_process,
                                               "tag_ids", {})
    /\ last' = [op |-> "tag_ids", company |-> company, ids |-> ids, pre |-> accounts]
    /\ UNCHANGED <<nextAccountId, lines, references, lockDates, groups, nextGroupId, alloc>>

InitInherit ==
    /\ accounts \in InheritCharts
    /\ nextAccountId = Cardinality(DOMAIN accounts) + 1
    /\ lines = <<>>
    /\ references = <<>>
    /\ lockDates = [company \in Companies |-> NoLockDate]
    /\ groups = <<>>
    /\ nextGroupId = 1
    /\ alloc = NoAlloc
    /\ last = NoLast

\* One of the two computes, on one or two records, in one of the companies.
NextInherit ==
    \/ /\ last = NoLast
       /\ \E company \in Companies :
          \E ids \in {s \in SUBSET DOMAIN accounts : Cardinality(s) \in 1..2} :
              ComputeAccountType(company, ids)
    \/ /\ last = NoLast
       /\ \E company \in Companies :
          \E ids \in {s \in SUBSET DOMAIN accounts : Cardinality(s) \in 1..2} :
              ComputeAccountTags(company, ids)

SpecInherit == InitInherit /\ [][NextInherit]_vars

\* The records of a compute that had a code in the company and no value of
\* the field computed.
InheritTargets(l) ==
    {a \in l.ids :
        /\ l.pre[a].code[l.company] # <<>>
        /\ IF l.op = "account_type" THEN l.pre[a].account_type = "" ELSE l.pre[a].tag_ids = {}}

\* The rows of the company with a code smaller than the code of account t.
SmallerCodes(l, t) ==
    {a \in DOMAIN l.pre :
        /\ l.pre[a].stored
        /\ l.company \in l.pre[a].company_ids
        /\ StrLT(l.pre[a].code[l.company], l.pre[t].code[l.company])}

\* C26: after a compute of the account type or of the tags, each record that
\* had a code in the company and no value has the value that the row of the
\* company with the greatest code smaller than its own had when the call
\* began, or the default value (asset_current, no tag) when no row of the
\* company has a smaller code; no code, no company and no other field of any
\* account has changed, and no other account has changed at all.
C26_ClosestSmallerCode ==
    (last.op \in {"account_type", "tag_ids"}) =>
        /\ DOMAIN accounts = DOMAIN last.pre
        /\ \A t \in InheritTargets(last) :
               /\ \A a \in SmallerCodes(last, t) :
                      (\A b \in SmallerCodes(last, t) :
                           StrLE(last.pre[b].code[last.company], last.pre[a].code[last.company]))
                          => accounts[t][last.op] = last.pre[a][last.op]
               /\ SmallerCodes(last, t) = {}
                      => accounts[t][last.op]
                             = IF last.op = "account_type" THEN "asset_current" ELSE {}
               /\ [accounts[t] EXCEPT ![last.op] = last.pre[t][last.op]] = last.pre[t]
        /\ \A a \in (DOMAIN last.pre) \ InheritTargets(last) : accounts[a] = last.pre[a]

\* The tags of a row were computed and are those of the row with the closest
\* smaller code, which differ from those of a row with a code smaller still.
C26_Witness ==
    /\ last.op = "tag_ids"
    /\ \E t \in InheritTargets(last) : \E a, b \in SmallerCodes(last, t) :
           /\ last.pre[t].stored
           /\ StrLT(last.pre[b].code[last.company], last.pre[a].code[last.company])
           /\ last.pre[b].tag_ids = {}
           /\ last.pre[a].tag_ids = Tags
           /\ accounts[t].tag_ids = Tags


\* C27: after every create and write of groups, whichever prefix fields were
\* given, each group has a code_prefix_start and a code_prefix_end of one
\* length, and its code_prefix_start is not greater than its code_prefix_end.
C27_StartNotAfterEnd ==
    \A id \in DOMAIN groups :
        /\ Len(groups[id].code_prefix_start) = Len(groups[id].code_prefix_end)
        /\ StrLE(groups[id].code_prefix_start, groups[id].code_prefix_end)


\* C28: when step 1 of a merge returns, each company of the accounts given is
\* a key of code_by_company or a company in which the account to merge into
\* has a code already; and a merge that reaches its third step, by a user who
\* has all the companies of the accounts, is not refused because the account
\* merged into has no code in one of its companies.
C28_EveryCompanyHasCode ==
    (last.op = "merge" /\ last.error = "none") =>
        LET into == last.account_to_merge_into
        IN  /\ \A company \in UNION {last.pre.accounts[a].company_ids : a \in Range(last.ids)} :
                   \/ company \in DictKeys(last.code_by_company)
                   \/ /\ company \in last.pre.accounts[into].company_ids
                      /\ last.pre.accounts[into].code[company] # <<>>
            /\ (last.step = 3 /\ last.fault = "none" /\ last.outcome = "ValidationError")
                   => ~CodeNotSet(last.written.accounts, {into})


\* No two groups of one company with prefixes of one length have ranges with
\* a prefix in common.
NoOverlapIn(gs) ==
    \A a \in DOMAIN gs : \A b \in (DOMAIN gs) \ {a} :
        (/\ gs[a].company_id = gs[b].company_id
         /\ Len(gs[a].code_prefix_start) = Len(gs[b].code_prefix_start))
            => ~RangesOverlap(gs[a], gs[b])

\* C29: when no two groups overlap and no group has a start after its end, a
\* group has at most one eligible parent of each prefix length; so the rows
\* of the greatest length that the query may keep for a child are at most one,
\* and the resolver can leave one table only.
C29_OneParentPerLength ==
    (/\ NoOverlapIn(groups)
     /\ \A g \in DOMAIN groups : StrLE(groups[g].code_prefix_start, groups[g].code_prefix_end))
        => /\ \A child \in DOMAIN groups : \A p1, p2 \in EligibleParents(groups, child) :
                  Len(groups[p1].code_prefix_start) = Len(groups[p2].code_prefix_start)
                      => p1 = p2
           /\ \A child \in DOMAIN groups : \A company_ids \in SUBSET Companies :
                  Cardinality(RelationParents(groups, company_ids, child)) <= 1
           /\ \A company_ids \in SUBSET Companies :
                  Cardinality(AdaptParentAccountGroup(groups, company_ids, FALSE)) = 1

\* Three groups without overlap and in order, two of one length in one
\* company, one of which is an eligible parent of the third.
C29_Witness ==
    /\ NoOverlapIn(groups)
    /\ \A g \in DOMAIN groups : StrLE(groups[g].code_prefix_start, groups[g].code_prefix_end)
    /\ \E child \in DOMAIN groups : \E p1 \in EligibleParents(groups, child) :
       \E p2 \in (DOMAIN groups) \ {p1, child} :
           /\ groups[p2].company_id = groups[p1].company_id
           /\ Len(groups[p2].code_prefix_start) = Len(groups[p1].code_prefix_start)


-----------------------------------------------------------------------------
(* The codes that one create and one copy_data allocate *)

\* How many vals the create is given here.
MaxAllocated == 3

\* How many accounts the chart has before the call.
MaxCharted == 2

\* The codes of the accounts of the chart.
BatchCodes == { <<"4", "0", "1">>, <<"4", "0", "2">>, <<"9", "9">> }

\* The charts: accounts of one company or of both, with codes that differ
\* within a company.
BatchCharts ==
    LET CodesIn(company_ids) ==
            {c \in [Companies -> BatchCodes \cup {<<>>}] :
                \A company \in Companies : c[company] # <<>> <=> company \in company_ids}
        options == UNION {{[NewAccount(1, <<>>) EXCEPT !.company_ids = company_ids,
                                                       !.code = code] :
                              code \in CodesIn(company_ids)} :
                          company_ids \in (SUBSET Companies) \ {{}}}
    IN  {accs \in UNION {[1..n -> options] : n \in 0..MaxCharted} :
            \A a, b \in DOMAIN accs :
                a # b => \A c \in accs[a].company_ids \cap accs[b].company_ids :
                             accs[a].code[c] # accs[b].code[c]}

\* The vals of the create: a prefix with code_digits, which gives the start
\* code 401 or 99, or a code, for the company of the environment or for
\* company 2.
BatchVals ==
    LET codes == { [prefix |-> <<"4", "0">>, code_digits |-> 3],
                   [prefix |-> <<"9", "9">>, code_digits |-> 2],
                   [code |-> <<"4", "0", "1">>] }
    IN  codes \cup {v @@ [company_ids |-> 2] : v \in codes}

BatchValsLists == UNION {[1..n -> BatchVals] : n \in 1..MaxAllocated}

\* The default of a copy: none, the company of the copies, or their code.
CopyDefaults ==
    { <<>>, [company_ids |-> 1], [company_ids |-> 2], [code |-> <<"4", "0", "2">>] }

\* The loop of copy_data over the records of ids, from index i on; cache is
\* the defaultdict of the codes given so far, by company.  The result is how
\* the call ends and, of each vals, the company and the code.
RECURSIVE CopyDataLoop(_, _, _, _, _)
CopyDataLoop(accs, ids, default, i, cache) ==
    IF i > Len(ids) THEN [outcome |-> "ok", vals_list |-> <<>>]
    ELSE LET account == accs[ids[i]]
             company_ids == IF "company_ids" \in DOMAIN default
                            THEN {default["company_ids"]} ELSE account.company_ids
             company == CHOOSE c \in company_ids : TRUE
             start_code == IF account.code[company] # <<>> THEN account.code[company]
                           ELSE account.code[Sorted(account.company_ids)[1]]
             code == IF "code" \in DOMAIN default THEN default["code"]
                     ELSE SearchNewAccountCode(start_code, cache[company],
                                               UsedCodes(accs, company))
             rest == CopyDataLoop(accs, ids, default, i + 1,
                                  IF "code" \in DOMAIN default THEN cache
                                  ELSE [cache EXCEPT ![company] = @ \cup {code}])
         IN  IF Cardinality(company_ids) # 1
             THEN [outcome |-> "ValueError", vals_list |-> <<>>]
             ELSE IF code = NoCodeFound THEN [outcome |-> "UserError", vals_list |-> <<>>]
             ELSE IF rest.outcome # "ok" THEN rest
             ELSE [rest EXCEPT !.vals_list = <<[company_ids |-> company, code |-> code]>> \o @]

\* copy_data(default) on the records of ids: it writes no table, and last
\* keeps the company and the code of the vals it returns.
CopyData(ids, default) ==
    /\ Len(ids) \in 1..MaxAllocated
    /\ Range(ids) \subseteq DOMAIN accounts
    /\ \A i, j \in 1..Len(ids) : i # j => ids[i] # ids[j]
    /\ \E r \in {CopyDataLoop(accounts, ids, default, 1, [c \in Companies |-> {}])} :
           last' = [op |-> "copy_data", outcome |-> r.outcome, ids |-> ids,
                    default |-> default, vals_list |-> r.vals_list, pre |-> accounts]
    /\ UNCHANGED <<accounts, nextAccountId, lines, references, lockDates, groups,
                   nextGroupId, alloc>>

InitBatch ==
    /\ accounts \in BatchCharts
    /\ nextAccountId = Cardinality(DOMAIN accounts) + 1
    /\ lines = <<>>
    /\ references = <<>>
    /\ lockDates = [company \in Companies |-> NoLockDate]
    /\ groups = <<>>
    /\ nextGroupId = 1
    /\ alloc = NoAlloc
    /\ last = NoLast

\* One create or one copy_data.
NextBatch ==
    \/ /\ last = NoLast
       /\ \E company \in Companies, vals_list \in BatchValsLists :
              AccountCreateLogged(company, vals_list, TRUE)
    \/ /\ last = NoLast
       /\ \E ids \in UNION {[1..n -> DOMAIN accounts] : n \in 1..MaxAllocated},
             default \in CopyDefaults :
              CopyData(ids, default)

SpecBatch == InitBatch /\ [][NextBatch]_vars

\* The codes that the call gave out, each with its company: those of the
\* records created from vals with a prefix, or those of the vals of the copies
\* when the default names no code.
Allocated(l) ==
    IF l.op = "create"
    THEN {[i |-> i,
           company |-> CHOOSE c \in Companies : c \in l.written[l.ids[i]].company_ids,
           code |-> l.written[l.ids[i]].code[
                        CHOOSE c \in Companies : c \in l.written[l.ids[i]].company_ids]] :
             i \in {k \in 1..Len(l.ids) : "prefix" \in DOMAIN l.vals_list[k]}}
    ELSE IF l.op = "copy_data" /\ "code" \notin DOMAIN l.default
    THEN {[i |-> i, company |-> l.vals_list[i].company_ids, code |-> l.vals_list[i].code] :
             i \in 1..Len(l.vals_list)}
    ELSE {}

\* C30: the codes that one create gives to the vals with a prefix, and the
\* codes that one copy_data gives to the copies, differ from each other within
\* a company, and none is the code of an account that the company had before
\* the call.
C30_AllocatedCodesDistinct ==
    \A x \in Allocated(last) :
        /\ x.code \notin UsedCodes(last.pre, x.company)
        /\ \A y \in Allocated(last) :
               (x.i # y.i /\ x.company = y.company) => x.code # y.code

\* A create of three accounts by prefix in one company, in which an account
\* has the start code, that went through.
C30_Witness ==
    /\ last.op = "create"
    /\ last.outcome = "ok"
    /\ Cardinality(Allocated(last)) = 3
    /\ \E x \in Allocated(last) :
           /\ \A y \in Allocated(last) : y.company = x.company
           /\ StartCode(last.vals_list[x.i]["prefix"], last.vals_list[x.i]["code_digits"])
                  \in UsedCodes(last.pre, x.company)

=============================================================================
